---- MODULE Spec2Model ----
(***************************************************************************)
(* A model of svggraph's line graph renderer                                *)
(* (src/svggraph/linegraphrender.py): the SvgLineGraph object, its          *)
(* add_series / add / add_event mutators, get_default_y_interval and        *)
(* render.                                                                  *)
(*                                                                          *)
(* Conventions.                                                             *)
(*  - Python's None is the empty tuple None == <<>>; a present value v is   *)
(*    Some(v) == <<v>>, so a series' data is a sequence of None / Some(v).  *)
(*    Options whose only use is a truth test (y_interval, y_min_intervals,  *)
(*    y_minor_interval) are 0 when unset: None and 0 are both falsy.        *)
(*  - Python floats are exact rationals <<n, d>> in lowest terms, d > 0.    *)
(*  - The SVG document is the sequence of easysvg calls render makes; each  *)
(*    call is a record, and its "src" field names the statement of render   *)
(*    that made it and "idx" the loop variable it was made for (x_step,     *)
(*    y_step, the key's i, the event position; for the series geometry the  *)
(*    position of the series in the list, from 1).                          *)
(***************************************************************************)
EXTENDS Integers, Sequences, FiniteSets, TLC

VARIABLES
    x_labels,   \* SvgLineGraph.x_labels (a sequence of strings; <<>> for None)
    series,     \* SvgLineGraph.series: sequence of series records
    y_min,      \* SvgLineGraph.y_min (None or Some(v))
    y_max,      \* SvgLineGraph.y_max
    x_range,    \* SvgLineGraph.x_range
    style,      \* SvgLineGraph.style (the options the model varies)
    events,     \* SvgLineGraph.events: function x_position -> event
    ret,        \* what the latest call returned or raised
    rv,         \* the local variables of the latest render or
                \* get_rolling_average call
    threads     \* two more SvgLineGraph objects, the Series objects they hold
                \* and the position of the thread that renders each of them

vars == <<x_labels, series, y_min, y_max, x_range, style, events, ret, rv, threads>>

None == <<>>
Some(v) == <<v>>
IsNone(o) == o = <<>>
Val(o) == o[1]

(***************************************************************************)
(* Python arithmetic                                                        *)
(***************************************************************************)
Abs(n) == IF n < 0 THEN -n ELSE n

Min2(a, b) == IF a <= b THEN a ELSE b

Max2(a, b) == IF a >= b THEN a ELSE b

RECURSIVE GCD(_, _)
GCD(a, b) == IF b = 0 THEN a ELSE GCD(b, a % b)

\* math.floor(a / b) for integers a, b with b > 0
FloorDiv(a, b) == a \div b

\* math.ceil(a / b) for integers a, b with b > 0
CeilDiv(a, b) == -((-a) \div b)

\* int(a / b): truncation toward zero, b > 0
TruncDiv(a, b) == IF a >= 0 THEN a \div b ELSE -((-a) \div b)

\* len(str(n)) for an integer n >= 1
RECURSIVE NumDigits(_)
NumDigits(n) == IF n < 10 THEN 1 ELSE 1 + NumDigits(n \div 10)

RECURSIVE Pow10(_)
Pow10(e) == IF e = 0 THEN 1 ELSE 10 * Pow10(e - 1)

\* a float: the rational n / d in lowest terms
Rat(n, d) ==
    LET g == GCD(Abs(n), Abs(d))
        s == IF d < 0 THEN -1 ELSE 1
    IN  <<(s * n) \div g, (s * d) \div g>>

RInt(n) == <<n, 1>>

RAdd(a, b) == Rat(a[1] * b[2] + b[1] * a[2], a[2] * b[2])

RSub(a, b) == Rat(a[1] * b[2] - b[1] * a[2], a[2] * b[2])

RMul(a, b) == Rat(a[1] * b[1], a[2] * b[2])

RDiv(a, b) == Rat(a[1] * b[2], a[2] * b[1])

RLt(a, b) == a[1] * b[2] < b[1] * a[2]

RLe(a, b) == a[1] * b[2] <= b[1] * a[2]

(***************************************************************************)
(* Bounds of the model                                                      *)
(***************************************************************************)
\* get_default_y_interval is explored for every y_max - y_min up to MaxDelta
MaxDelta == 5200

\* the y range is explored for data values k and 7 * k, -MaxAbsY <= k <= MaxAbsY
MaxAbsY == 9

\* and for every y_min_intervals up to MaxMinIntervals
MaxMinIntervals == 6

\* a series has at most MaxLen data points
MaxLen == 3

(***************************************************************************)
(* SvgLineGraph._add_series: the running minimum, maximum and length        *)
(***************************************************************************)
\* a slip of UpdYMin: every present value is taken, without the comparison
RECURSIVE UpdYMin_uncompared(_, _)
UpdYMin_uncompared(cur, data) ==
    IF data = <<>> THEN cur
    ELSE UpdYMin_uncompared(IF IsNone(Head(data)) THEN cur ELSE Head(data), Tail(data))

RECURSIVE UpdYMin(_, _)
UpdYMin(cur, data) ==
    IF data = <<>> THEN cur
    ELSE LET y == Head(data)
             nxt == IF IsNone(y) THEN cur
                    ELSE IF IsNone(cur) \/ Val(y) < Val(cur) THEN y ELSE cur
         IN  UpdYMin(nxt, Tail(data))

RECURSIVE UpdYMax(_, _)
UpdYMax(cur, data) ==
    IF data = <<>> THEN cur
    ELSE LET y == Head(data)
             nxt == IF IsNone(y) THEN cur
                    ELSE IF IsNone(cur) \/ Val(y) > Val(cur) THEN y ELSE cur
         IN  UpdYMax(nxt, Tail(data))

UpdXRange(cur, data) == IF Len(data) > cur THEN Len(data) ELSE cur

(***************************************************************************)
(* SvgLineGraph.get_default_y_interval                                      *)
(***************************************************************************)
\* "Aim for about 10 divisions"
target_divisions == 10

\* a slip of get_default_y_interval: the last candidate is 10^exp again
get_default_y_interval_wrapped(ymin, ymax) ==
    LET delta_y == ymax - ymin
        target == TruncDiv(delta_y, target_divisions)
    IN  IF target < 1 THEN 1
        ELSE LET num_digits == NumDigits(target)
                 exp == num_digits - 1
             IN  IF target <= Pow10(exp) THEN Pow10(exp)
                 ELSE IF target <= 2 * Pow10(exp) THEN 2 * Pow10(exp)
                 ELSE IF target <= 5 * Pow10(exp) THEN 5 * Pow10(exp)
                 ELSE Pow10(exp)

\* a slip of get_default_y_interval: the candidates are compared with <
get_default_y_interval_strict(ymin, ymax) ==
    LET delta_y == ymax - ymin
        target == TruncDiv(delta_y, target_divisions)
    IN  IF target < 1 THEN 1
        ELSE LET num_digits == NumDigits(target)
                 exp == num_digits - 1
             IN  IF target < Pow10(exp) THEN Pow10(exp)
                 ELSE IF target < 2 * Pow10(exp) THEN 2 * Pow10(exp)
                 ELSE IF target < 5 * Pow10(exp) THEN 5 * Pow10(exp)
                 ELSE Pow10(exp + 1)

get_default_y_interval(ymin, ymax) ==
    LET delta_y == ymax - ymin
        target == TruncDiv(delta_y, target_divisions)
    IN  IF target < 1 THEN 1
        ELSE LET num_digits == NumDigits(target)
                 exp == num_digits - 1
             IN  IF target <= Pow10(exp) THEN Pow10(exp)
                 ELSE IF target <= 2 * Pow10(exp) THEN 2 * Pow10(exp)
                 ELSE IF target <= 5 * Pow10(exp) THEN 5 * Pow10(exp)
                 ELSE Pow10(exp + 1)

(***************************************************************************)
(* SvgLineGraphStyle and SvgLineGraphSeriesStyle                            *)
(***************************************************************************)
\* SvgLineGraphStyle(): every option at its default
DefaultStyle ==
    [ grid_line_colour |-> "#bbb",
      grid_line_minor_colour |-> "#e0e0e0",
      axis_line_colour |-> "#333",
      scale_text_colour |-> "#555",
      scale_text_size |-> 12,
      y_scale_text_distance |-> 7,
      y_scale_text_width |-> 50,
      x_scale_text_height |-> 30,
      y_scale_text_anchor |-> "end",
      x_scale_border |-> FALSE,
      x_label_rotation |-> 0,
      show_key |-> TRUE,
      key_row_height |-> 34,
      key_title |-> "Key:",
      key_title_width |-> 150,
      key_max_rows |-> 1,
      key_order_in_columns |-> FALSE,
      auto_format_y_axis |-> TRUE,
      y_interval |-> 0,
      y_minor_interval |-> 0,
      show_minor_x_grid_lines |-> TRUE,
      show_minor_y_grid_lines |-> TRUE,
      top_margin |-> 10,
      right_margin |-> 4,
      bottom_margin |-> 4,
      left_margin |-> 4,
      y_min_intervals |-> 0,
      start_y_from_zero |-> FALSE,
      x_scale_offset |-> 1,
      event_label_text_height |-> 10,
      event_label_text_size |-> 12,
      event_label_text_rotation |-> 0,
      event_default_colour |-> "#5555ff",
      event_triangle_size |-> 3 ]

\* SvgLineGraphSeriesStyle(line_colour): every other option at its default
DefaultSeriesStyle ==
    [ line_colour |-> "#000000",
      show_points |-> FALSE,
      show_line |-> TRUE,
      point_radius |-> 5,
      shade_under_line |-> FALSE,
      shade_colour |-> "None",
      key_shape |-> "square",
      key_colour |-> "" ]

\* SvgLineGraphSeries(name, data, style); _screen_points is unset (None) until a
\* render sets it to Some(list of points)
NewSeries(name, data, sstyle) ==
    [name |-> name, data |-> data, style |-> sstyle, screen_points |-> None]

\* SvgLineGraphEvent(x_position, name, colour); colour "None" when not given
NewEvent(x_position, name, colour) ==
    [x_position |-> x_position, name |-> name, colour |-> colour]

num_points(s) == Len(s.data)

has_data(s) == num_points(s) > 0

(***************************************************************************)
(* SvgLineGraphSeries.get_rolling_average                                   *)
(***************************************************************************)
\* total after "for j in range(i, i + average_width): total += self.data[j]"
\* (i from 0), for a window of present values
RECURSIVE WindowTotal(_, _, _)
WindowTotal(data, i, average_width) ==
    IF average_width <= 0 THEN 0
    ELSE Val(data[i + 1]) + WindowTotal(data, i + 1, average_width - 1)

\* the window data[i .. i + average_width - 1] holds None, which += rejects
WindowHasNone(data, i, average_width) ==
    \E j \in i..(i + average_width - 1) : IsNone(data[j + 1])

\* the list out after the two loops, the second one of `windows` rounds
RollingOut(data, average_width, before, windows) ==
    [k \in 1..before |-> None]
    \o [k \in 1..Max2(windows, 0) |->
           Some(Rat(WindowTotal(data, k - 1, average_width), average_width))]

\* what the two loops do: [raises |-> "" and out, or the exception raised]
RollingAverage(data, average_width, before, windows) ==
    IF windows >= 1 /\ average_width = 0
    THEN [raises |-> "ZeroDivisionError", out |-> <<>>]
    ELSE IF \E i \in 0..(windows - 1) : WindowHasNone(data, i, average_width)
    THEN [raises |-> "TypeError", out |-> <<>>]
    ELSE [raises |-> "", out |-> RollingOut(data, average_width, before, windows)]

\* a slip of get_rolling_average: the last window is left out
get_rolling_average_short(data, average_width) ==
    RollingAverage(data, average_width, average_width \div 2, Len(data) - average_width)

\* a slip of get_rolling_average: the lead-in is rounded up
get_rolling_average_ceil_lead(data, average_width) ==
    RollingAverage(data, average_width, (average_width + 1) \div 2,
                   Len(data) - average_width + 1)

\* get_rolling_average(average_width) on a series with this data, for
\* average_width >= 0
get_rolling_average(data, average_width) ==
    RollingAverage(data, average_width, average_width \div 2,
                   Len(data) - average_width + 1)

(***************************************************************************)
(* render: layout (margins and plot size)                                   *)
(***************************************************************************)
key_num_rows_of(st, nseries) ==
    IF st.show_key
    THEN LET rows == CeilDiv(nseries, 2)
         IN  IF rows > st.key_max_rows THEN st.key_max_rows ELSE rows
    ELSE 0

RenderLayout(g, width, height) ==
    LET st == g.style
        key_num_rows == key_num_rows_of(st, Len(g.series))
        key_height == st.key_row_height * key_num_rows
        events_height == IF DOMAIN g.events # {} THEN st.event_label_text_height ELSE 0
        left_margin == st.y_scale_text_width + st.left_margin
        right_margin == st.right_margin
        top_margin == RAdd(Rat(st.scale_text_size, 2), RInt(st.top_margin + events_height))
        bottom_margin == st.x_scale_text_height + key_height + st.bottom_margin
    IN  [ key_num_rows |-> key_num_rows,
          key_height |-> key_height,
          left_margin |-> left_margin,
          right_margin |-> right_margin,
          top_margin |-> top_margin,
          bottom_margin |-> bottom_margin,
          x_plot_size |-> width - left_margin - right_margin,
          y_plot_size |-> RSub(RSub(RInt(height), top_margin), RInt(bottom_margin)) ]

\* a slip of GraphHasData: a graph with a series counts as having data
GraphHasData_any_series(g) == Len(g.series) > 0

\* the empty-data guard's loop over the series
GraphHasData(g) == \E i \in 1..Len(g.series) : has_data(g.series[i])

(***************************************************************************)
(* render: the x scale                                                      *)
(***************************************************************************)
\* x_steps: the number of x intervals, 1 when the x domain is a single column
XSteps(xrange) ==
    LET x_math_range == xrange - 1
        x_steps == x_math_range - 0
    IN  IF x_steps = 0 THEN 1 ELSE x_steps

(***************************************************************************)
(* render: the y range                                                      *)
(***************************************************************************)
YMathInterval(st, ymin, ymax) ==
    IF st.y_interval # 0 THEN st.y_interval ELSE get_default_y_interval(ymin, ymax)

\* a slip of SnapRange: the top of the range rounded down as the bottom is
SnapRange_floor_both(ymin, ymax, interval) ==
    [min |-> FloorDiv(ymin, interval), max |-> FloorDiv(ymax, interval)]

\* the range in whole intervals that covers the data
SnapRange(ymin, ymax, interval) ==
    [min |-> FloorDiv(ymin, interval), max |-> CeilDiv(ymax, interval)]

\* a slip of StartFromZero: the range is made to include zero whatever the style
StartFromZero_always(rng, start_y_from_zero) ==
    [ min |-> IF rng.min > 0 THEN 0 ELSE rng.min,
      max |-> IF rng.min <= 0 /\ rng.max < 0 THEN 0 ELSE rng.max ]

\* a slip of StartFromZero: only a range above zero is extended
StartFromZero_above_only(rng, start_y_from_zero) ==
    IF start_y_from_zero /\ rng.min > 0 THEN [rng EXCEPT !.min = 0] ELSE rng

\* "Fudge the range to include y = 0"
StartFromZero(rng, start_y_from_zero) ==
    IF start_y_from_zero
    THEN IF rng.min > 0 THEN [rng EXCEPT !.min = 0]
         ELSE IF rng.max < 0 THEN [rng EXCEPT !.max = 0]
         ELSE rng
    ELSE rng

\* a slip of SplitExtra: the larger half goes above
SplitExtra_more_above(extra_range) ==
    LET add_below == extra_range \div 2
    IN  [above |-> extra_range - add_below, below |-> add_below]

\* the halves of the extra range added above and below
SplitExtra(extra_range) ==
    LET add_above == extra_range \div 2
    IN  [above |-> add_above, below |-> extra_range - add_above]

\* a slip of ClampExtra: the part cut off below is not added above
ClampExtra_drop_rest(rng, split, extra_range) ==
    IF rng.min >= 0 /\ rng.min - split.below < 0
    THEN [above |-> split.above, below |-> rng.min]
    ELSE split

\* "We don't want this fudging of the range to go over an axis"
ClampExtra(rng, split, extra_range) ==
    IF rng.min >= 0 /\ rng.min - split.below < 0
    THEN [above |-> extra_range - rng.min, below |-> rng.min]
    ELSE split

\* "This allows us to set a minimum number of y intervals to display"
EnlargeRange(rng, y_min_intervals) ==
    LET y_range == rng.max - rng.min
    IN  IF y_min_intervals # 0 /\ y_range < y_min_intervals
        THEN LET extra_range == y_min_intervals - y_range
                 split == SplitExtra(extra_range)
                 add == ClampExtra(rng, split, extra_range)
             IN  [ min |-> rng.min - add.below, max |-> rng.max + add.above,
                   enlarged |-> TRUE, extra_range |-> extra_range,
                   split_above |-> split.above, split_below |-> split.below,
                   add_above |-> add.above, add_below |-> add.below ]
        ELSE [ min |-> rng.min, max |-> rng.max,
               enlarged |-> FALSE, extra_range |-> 0,
               split_above |-> 0, split_below |-> 0,
               add_above |-> 0, add_below |-> 0 ]

\* a slip of MathRange: the zero range widened above only
MathRange_widen_above(range_min, range_max, interval) ==
    LET y_range == range_max - range_min
        widen == IF y_range = 0 THEN interval ELSE 0
    IN  [ min |-> range_min * interval, max |-> range_max * interval + widen,
          range |-> y_range * interval + widen ]

\* y_math_min, y_math_max, y_math_range with the zero range widened
MathRange(range_min, range_max, interval) ==
    LET y_range == range_max - range_min
        y_math_min == range_min * interval
        y_math_max == range_max * interval
        y_math_range == y_range * interval
    IN  IF y_math_range = 0
        THEN [ min |-> y_math_min - interval, max |-> y_math_max + interval,
               range |-> (y_math_max + interval) - (y_math_min - interval) ]
        ELSE [min |-> y_math_min, max |-> y_math_max, range |-> y_math_range]

\* the locals of render that make the y scale (y_min is set)
RenderYScale(g, lay) ==
    LET st == g.style
        y_math_interval == YMathInterval(st, Val(g.y_min), Val(g.y_max))
        snapped == SnapRange(Val(g.y_min), Val(g.y_max), y_math_interval)
        zeroed == StartFromZero(snapped, st.start_y_from_zero)
        grown == EnlargeRange(zeroed, st.y_min_intervals)
        m == MathRange(grown.min, grown.max, y_math_interval)
        y_steps == TruncDiv(m.range, y_math_interval)
    IN  [ y_math_interval |-> y_math_interval,
          snapped |-> snapped,
          zeroed |-> zeroed,
          grown |-> grown,
          y_range_min |-> grown.min,
          y_range_max |-> grown.max,
          y_math_min |-> m.min,
          y_math_max |-> m.max,
          y_math_range |-> m.range,
          y_math_offset |-> m.min,
          y_steps |-> y_steps,
          y_screen_offset |-> lay.bottom_margin,
          y_screen_interval |-> RDiv(lay.y_plot_size, RInt(y_steps)) ]

\* the locals of render that make the x scale
RenderXScale(g, lay) ==
    LET x_math_range == g.x_range - 1
        x_steps == XSteps(g.x_range)
        x_screen_offset == lay.left_margin
        x_screen_interval == Rat(lay.x_plot_size, x_steps)
        to_screen(math_x) == RAdd(RInt(x_screen_offset), RMul(RInt(math_x), x_screen_interval))
        x_screen_min == to_screen(0)
        x_screen_max0 == to_screen(x_math_range)
    IN  [ x_math_range |-> x_math_range,
          x_steps |-> x_steps,
          x_screen_offset |-> x_screen_offset,
          x_screen_range |-> lay.x_plot_size,
          x_screen_interval |-> x_screen_interval,
          x_screen_min |-> x_screen_min,
          x_screen_max |-> IF x_screen_max0 = x_screen_min THEN to_screen(1)
                           ELSE x_screen_max0 ]

x_math_to_screen(xs, math_x) ==
    RAdd(RInt(xs.x_screen_offset), RMul(RInt(math_x), xs.x_screen_interval))

\* math_y is a rational here: render passes integers and float(math_y)
y_math_to_screen(ys, height, math_y) ==
    RSub(RInt(height - ys.y_screen_offset),
         RMul(RDiv(RSub(math_y, RInt(ys.y_math_offset)), RInt(ys.y_math_interval)),
              ys.y_screen_interval))

(***************************************************************************)
(* easysvg calls                                                            *)
(***************************************************************************)
SvgLine(src, idx, x1, y1, x2, y2, stroke) ==
    [op |-> "line", src |-> src, idx |-> idx,
     x1 |-> x1, y1 |-> y1, x2 |-> x2, y2 |-> y2, stroke |-> stroke]

SvgText(src, idx, str, x, y, anchor, transform) ==
    [op |-> "text", src |-> src, idx |-> idx,
     str |-> str, x |-> x, y |-> y, anchor |-> anchor, transform |-> transform]

SvgRect(src, idx, x, y, w, h, stroke, fill) ==
    [op |-> "rect", src |-> src, idx |-> idx,
     x |-> x, y |-> y, w |-> w, h |-> h, stroke |-> stroke, fill |-> fill]

SvgCircle(src, idx, cx, cy, r, fill) ==
    [op |-> "circle", src |-> src, idx |-> idx,
     cx |-> cx, cy |-> cy, r |-> r, fill |-> fill]

SvgPolygon(src, idx, points, stroke, fill) ==
    [op |-> "polygon", src |-> src, idx |-> idx,
     points |-> points, stroke |-> stroke, fill |-> fill]

\* easysvg.rotation_transform(angle, x, y)
rotation_transform(angle, x, y) == Some([rotate |-> angle, x |-> x, y |-> y])

\* F(lo) \o F(lo + 1) \o ... \o F(hi): the calls of a for loop over range(lo, hi + 1)
RECURSIVE ForRange(_, _, _)
ForRange(F(_), lo, hi) ==
    IF lo > hi THEN <<>> ELSE F(lo) \o ForRange(F, lo + 1, hi)

\* x_labels[i] of Python (0-based) is in range
LabelInRange(g, i) == i + 1 <= Len(g.x_labels)

Label(g, i) == g.x_labels[i + 1]

FlatOk(calls) == [ok |-> TRUE, calls |-> calls]

Raise(at) == [ok |-> FALSE, calls |-> <<>>, at |-> at]

(***************************************************************************)
(* render: the grid.  A section of render is [ok, calls]: the calls it      *)
(* makes, or ok = FALSE when a statement of it raises.  The context c holds *)
(* the graph c.g, the arguments c.width, c.height and the locals c.lay,     *)
(* c.xs, c.ys.                                                              *)
(***************************************************************************)
\* "Draw the x grid lines (but not the y-axis to avoid layering issues)"
DrawXGrid(c) ==
    LET st == c.g.style
        x_steps == c.xs.x_steps
        F(x_step) ==
            IF st.show_minor_x_grid_lines \/ Label(c.g, x_step) # ""
            THEN LET screen_x == x_math_to_screen(c.xs, x_step)
                     colour == IF Label(c.g, x_step) # "" THEN st.grid_line_colour
                               ELSE st.grid_line_minor_colour
                 IN  <<SvgLine("x_grid", x_step, screen_x, c.ys.y_screen_min,
                               screen_x, c.ys.y_screen_max, colour)>>
            ELSE <<>>
    IN  IF x_steps > 1
        THEN IF \E x_step \in 1..x_steps : ~LabelInRange(c.g, x_step)
             THEN Raise("x_grid")
             ELSE FlatOk(ForRange(F, 1, x_steps))
        ELSE FlatOk(<<>>)

\* "Add an extra line down the middle"
DrawMidLine(c) ==
    IF c.xs.x_steps = 1
    THEN LET x == RAdd(c.xs.x_screen_min, Rat(c.lay.x_plot_size, 2))
         IN  FlatOk(<<SvgLine("x_mid", 0, x, c.ys.y_screen_min,
                              x, RSub(c.ys.y_screen_min, c.lay.y_plot_size),
                              c.g.style.grid_line_colour)>>)
    ELSE FlatOk(<<>>)

\* "Figure out where to draw the x axis"
MathXAxis(ys) ==
    IF ys.y_math_min < 0 /\ ys.y_math_max > 0 THEN 0 ELSE ys.y_range_min

\* a slip of StepMathY: the range in intervals taken for the math offset
StepMathY_from_range_min(ys, y_step) == y_step * ys.y_math_interval + ys.y_range_min

\* the math y of major step y_step
StepMathY(ys, y_step) == y_step * ys.y_math_interval + ys.y_math_offset

\* "Draw y major gridlines and x axis"
DrawYMajor(c) ==
    LET st == c.g.style
        F(y_step) ==
            LET math_y == StepMathY(c.ys, y_step)
                screen_y == y_math_to_screen(c.ys, c.height, RInt(math_y))
                colour == IF math_y = MathXAxis(c.ys) THEN st.axis_line_colour
                          ELSE st.grid_line_colour
            IN  <<SvgLine("y_major", y_step, c.xs.x_screen_min, screen_y,
                          c.xs.x_screen_max, screen_y, colour)>>
    IN  FlatOk(ForRange(F, 0, c.ys.y_steps))

\* the sanity check of the minor interval fails (log.error)
MinorIntervalInvalid(st, y_math_interval) ==
    /\ st.y_minor_interval # 0
    /\ st.show_minor_y_grid_lines
    /\ y_math_interval % st.y_minor_interval # 0

\* a slip of DrawYMinor: the sanity check does not stop the drawing
DrawYMinor_unchecked(c) ==
    LET st == c.g.style
        minor == st.y_minor_interval
        F(k) ==
            LET math_y == c.ys.y_math_min + k * minor
            IN  IF math_y % c.ys.y_math_interval = 0 THEN <<>>
                ELSE LET screen_y == y_math_to_screen(c.ys, c.height, RInt(math_y))
                     IN  <<SvgLine("y_minor", k, c.xs.x_screen_min, screen_y,
                                   c.xs.x_screen_max, screen_y,
                                   st.grid_line_minor_colour)>>
    IN  IF minor # 0 /\ st.show_minor_y_grid_lines
        THEN FlatOk(ForRange(F, 0, CeilDiv(c.ys.y_math_max - c.ys.y_math_min, minor) - 1))
        ELSE FlatOk(<<>>)

\* "Draw y minor gridlines"
DrawYMinor(c) ==
    LET st == c.g.style
        minor == st.y_minor_interval
        F(k) ==
            LET math_y == c.ys.y_math_min + k * minor
            IN  IF math_y % c.ys.y_math_interval = 0 THEN <<>>
                ELSE LET screen_y == y_math_to_screen(c.ys, c.height, RInt(math_y))
                     IN  <<SvgLine("y_minor", k, c.xs.x_screen_min, screen_y,
                                   c.xs.x_screen_max, screen_y,
                                   st.grid_line_minor_colour)>>
    IN  IF minor # 0 /\ st.show_minor_y_grid_lines
        THEN IF c.ys.y_math_interval % minor # 0 THEN FlatOk(<<>>)
             ELSE FlatOk(ForRange(F, 0, CeilDiv(c.ys.y_math_max - c.ys.y_math_min, minor) - 1))
        ELSE FlatOk(<<>>)

\* "Draw the y axis"
DrawYAxis(c) ==
    LET y_axis == x_math_to_screen(c.xs, 0)
    IN  FlatOk(<<SvgLine("y_axis", 0, y_axis, c.ys.y_screen_min,
                         y_axis, c.ys.y_screen_max, c.g.style.axis_line_colour)>>)

(***************************************************************************)
(* render: the scale labels                                                 *)
(***************************************************************************)
\* the digits of r after a decimal point, in a field of `width` digits,
\* without trailing zeros
RECURSIVE FracDigits(_, _)
FracDigits(r, width) ==
    IF r = 0 THEN ""
    ELSE LET unit == Pow10(width - 1)
         IN  ToString(r \div unit) \o FracDigits(r % unit, width - 1)

\* str(decimal.Decimal(v) / 10 ** e) for v >= 0
DecimalStr(v, e) ==
    LET q == v \div Pow10(e)
        r == v % Pow10(e)
    IN  IF r = 0 THEN ToString(q) ELSE ToString(q) \o "." \o FracDigits(r, e)

\* the text of the y label of y_value
YLabel(st, y_value) ==
    IF st.auto_format_y_axis /\ y_value >= 1000000 THEN DecimalStr(y_value, 6) \o "m"
    ELSE IF st.auto_format_y_axis /\ y_value >= 1000 THEN DecimalStr(y_value, 3) \o "k"
    ELSE ToString(y_value)

\* "Scale"
DrawYScale(c) ==
    LET st == c.g.style
        F(y_step) ==
            LET math_y == StepMathY(c.ys, y_step)
                screen_y == y_math_to_screen(c.ys, c.height, RInt(math_y))
            IN  <<SvgText("y_scale", y_step, YLabel(st, math_y),
                          RInt(c.xs.x_screen_offset - st.y_scale_text_distance),
                          screen_y, st.y_scale_text_anchor, None)>>
    IN  FlatOk(ForRange(F, 0, c.ys.y_steps))

\* the x labels
DrawXLabels(c) ==
    LET st == c.g.style
        x_steps == c.xs.x_steps
        Skipped(x_step) == st.x_scale_border /\ (x_step = 0 \/ x_step = x_steps)
        plain_y == RAdd(c.ys.y_screen_min, RAdd(Rat(st.x_scale_text_height, 2), RInt(1)))
        F(x_step) ==
            IF Skipped(x_step) \/ Label(c.g, x_step) = "" THEN <<>>
            ELSE LET screen_x == x_math_to_screen(c.xs, x_step)
                     rot_y == RAdd(c.ys.y_screen_min,
                                   RAdd(Rat(st.scale_text_size, 3), RInt(st.x_scale_offset)))
                 IN  IF st.x_label_rotation # 0
                     THEN <<SvgText("x_label", x_step, Label(c.g, x_step), screen_x, rot_y,
                                    "start",
                                    rotation_transform(st.x_label_rotation, screen_x, rot_y))>>
                     ELSE <<SvgText("x_label", x_step, Label(c.g, x_step), screen_x, plain_y,
                                    IF x_step = x_steps THEN "end" ELSE "middle", None)>>
    IN  IF x_steps = 1
        THEN IF ~LabelInRange(c.g, 0) THEN Raise("x_label")
             ELSE FlatOk(<<SvgText("x_label", 0, Label(c.g, 0),
                                   RAdd(c.xs.x_screen_min, Rat(c.xs.x_screen_range, 2)),
                                   plain_y, "middle", None)>>)
        ELSE IF \E x_step \in 0..x_steps : ~Skipped(x_step) /\ ~LabelInRange(c.g, x_step)
             THEN Raise("x_label")
             ELSE FlatOk(ForRange(F, 0, x_steps))

\* "Border around scale"
DrawXBorder(c) ==
    LET st == c.g.style
        y0 == c.ys.y_screen_min
        y1 == RAdd(c.ys.y_screen_min, RInt(st.x_scale_text_height))
    IN  IF st.x_scale_border
        THEN FlatOk(<<SvgLine("x_border", 0, c.xs.x_screen_min, y0, c.xs.x_screen_min, y1,
                              st.grid_line_colour),
                      SvgLine("x_border", 1, c.xs.x_screen_max, y0, c.xs.x_screen_max, y1,
                              st.grid_line_colour),
                      SvgLine("x_border", 2, c.xs.x_screen_min, y1, c.xs.x_screen_max, y1,
                              st.grid_line_colour)>>)
        ELSE FlatOk(<<>>)

(***************************************************************************)
(* render: the key and the events                                           *)
(***************************************************************************)
\* a slip of KeyCell: the columns are filled by the row length
KeyCell_by_row_length(st, i, key_num_rows, row_length) ==
    IF st.key_order_in_columns
    THEN [row |-> i % row_length, row_pos |-> i \div row_length]
    ELSE [row |-> i \div row_length, row_pos |-> i % row_length]

\* the cell of series i (0-based) in the key
KeyCell(st, i, key_num_rows, row_length) ==
    IF st.key_order_in_columns
    THEN [row |-> i % key_num_rows, row_pos |-> i \div key_num_rows]
    ELSE [row |-> i \div row_length, row_pos |-> i % row_length]

KeyShapes == {"square", "circle"}

\* a slip of DrawKey: a shape that is not a square is drawn as a circle
DrawKey_any_shape(c) ==
    LET st == c.g.style
        n == Len(c.g.series)
        key_num_rows == c.lay.key_num_rows
        row_length == CeilDiv(n, key_num_rows)
        key_x_offset == st.key_title_width + st.left_margin
        key_y_offset == c.height - c.lay.key_height - st.bottom_margin
        key_width == c.width - c.lay.right_margin - key_x_offset
        key_item_width == Rat(key_width, row_length)
        key_square_offset == 10
        key_square_size == st.key_row_height - key_square_offset * 2
        title == SvgText("key_title", 0, st.key_title, c.xs.x_screen_min,
                         RAdd(RInt(key_y_offset), RAdd(Rat(st.key_row_height, 2), RInt(1))),
                         "default", None)
        F(i) ==
            LET sr == c.g.series[i + 1]
                cell == KeyCell(st, i, key_num_rows, row_length)
                row_y_offset == key_y_offset + cell.row * st.key_row_height
                x == RAdd(RInt(key_x_offset), RMul(RInt(cell.row_pos), key_item_width))
                y == RInt(row_y_offset + key_square_offset)
                colour == IF sr.style.key_colour # "" THEN sr.style.key_colour
                          ELSE sr.style.line_colour
                r == Rat(key_square_size, 2)
                marker == IF sr.style.key_shape = "square"
                          THEN SvgRect("key_marker", i, x, y, RInt(key_square_size),
                                       RInt(key_square_size), "None", colour)
                          ELSE SvgCircle("key_marker", i, RAdd(x, r), RAdd(y, r), r, colour)
            IN  <<marker,
                  SvgText("key_label", i, sr.name,
                          RAdd(x, RInt(key_square_size + key_square_offset)),
                          RAdd(RInt(row_y_offset), RAdd(Rat(st.key_row_height, 2), RInt(1))),
                          "default", None)>>
    IN  IF ~st.show_key THEN FlatOk(<<>>)
        ELSE IF key_num_rows = 0 THEN Raise("key_rows")
        ELSE FlatOk(<<title>> \o ForRange(F, 0, n - 1))

\* "Draw the key"
DrawKey(c) ==
    LET st == c.g.style
        n == Len(c.g.series)
        key_num_rows == c.lay.key_num_rows
        row_length == CeilDiv(n, key_num_rows)
        key_x_offset == st.key_title_width + st.left_margin
        key_y_offset == c.height - c.lay.key_height - st.bottom_margin
        key_width == c.width - c.lay.right_margin - key_x_offset
        key_item_width == Rat(key_width, row_length)
        key_square_offset == 10
        key_square_size == st.key_row_height - key_square_offset * 2
        title == SvgText("key_title", 0, st.key_title, c.xs.x_screen_min,
                         RAdd(RInt(key_y_offset), RAdd(Rat(st.key_row_height, 2), RInt(1))),
                         "default", None)
        F(i) ==
            LET sr == c.g.series[i + 1]
                cell == KeyCell(st, i, key_num_rows, row_length)
                row_y_offset == key_y_offset + cell.row * st.key_row_height
                x == RAdd(RInt(key_x_offset), RMul(RInt(cell.row_pos), key_item_width))
                y == RInt(row_y_offset + key_square_offset)
                colour == IF sr.style.key_colour # "" THEN sr.style.key_colour
                          ELSE sr.style.line_colour
                r == Rat(key_square_size, 2)
                marker == IF sr.style.key_shape = "square"
                          THEN SvgRect("key_marker", i, x, y, RInt(key_square_size),
                                       RInt(key_square_size), "None", colour)
                          ELSE SvgCircle("key_marker", i, RAdd(x, r), RAdd(y, r), r, colour)
            IN  <<marker,
                  SvgText("key_label", i, sr.name,
                          RAdd(x, RInt(key_square_size + key_square_offset)),
                          RAdd(RInt(row_y_offset), RAdd(Rat(st.key_row_height, 2), RInt(1))),
                          "default", None)>>
    IN  IF ~st.show_key THEN FlatOk(<<>>)
        ELSE IF key_num_rows = 0 THEN Raise("key_rows")
        ELSE IF \E i \in 1..n : c.g.series[i].style.key_shape \notin KeyShapes
             THEN Raise("key_shape")
        ELSE FlatOk(<<title>> \o ForRange(F, 0, n - 1))

\* sorted(S) for a finite set of integers
RECURSIVE Sorted(_)
Sorted(S) ==
    IF S = {} THEN <<>>
    ELSE LET m == CHOOSE x \in S : \A y \in S : x <= y
         IN  <<m>> \o Sorted(S \ {m})

\* a slip of DrawEvents: the positions are taken from last to first
DrawEvents_descending(c) ==
    LET st == c.g.style
        event_positions == Sorted(DOMAIN c.g.events)
        triangle_size == st.event_triangle_size
        F(k) ==
            LET event_position == event_positions[Len(event_positions) + 1 - k]
                event == c.g.events[event_position]
                screen_x == x_math_to_screen(c.xs, event_position)
                top == IF triangle_size # 0
                       THEN RAdd(c.ys.y_screen_max, RInt(triangle_size))
                       ELSE c.ys.y_screen_max
                bottom == c.ys.y_screen_min
                event_colour == IF event.colour = "None" THEN st.event_default_colour
                                ELSE event.colour
                label_y == RSub(RSub(top, Rat(st.event_label_text_size, 2)), RInt(1))
                tri == RInt(triangle_size)
            IN  <<SvgLine("event_line", event_position, screen_x, bottom, screen_x, top,
                          event_colour)>>
                \o (IF triangle_size # 0
                    THEN <<SvgPolygon("event_triangle", event_position,
                                      << <<RSub(screen_x, tri), RSub(top, tri)>>,
                                         <<RAdd(screen_x, tri), RSub(top, tri)>>,
                                         <<screen_x, top>> >>,
                                      event_colour, event_colour)>>
                    ELSE <<>>)
                \o <<SvgText("event_label", event_position, event.name, screen_x, label_y,
                             IF st.event_label_text_rotation # 0 THEN "start" ELSE "middle",
                             IF st.event_label_text_rotation # 0
                             THEN rotation_transform(-st.event_label_text_rotation,
                                                     screen_x, label_y)
                             ELSE None)>>
    IN  FlatOk(ForRange(F, 1, Len(event_positions)))

\* "Events"
DrawEvents(c) ==
    LET st == c.g.style
        event_positions == Sorted(DOMAIN c.g.events)
        triangle_size == st.event_triangle_size
        F(k) ==
            LET event_position == event_positions[k]
                event == c.g.events[event_position]
                screen_x == x_math_to_screen(c.xs, event_position)
                top == IF triangle_size # 0
                       THEN RAdd(c.ys.y_screen_max, RInt(triangle_size))
                       ELSE c.ys.y_screen_max
                bottom == c.ys.y_screen_min
                event_colour == IF event.colour = "None" THEN st.event_default_colour
                                ELSE event.colour
                label_y == RSub(RSub(top, Rat(st.event_label_text_size, 2)), RInt(1))
                tri == RInt(triangle_size)
            IN  <<SvgLine("event_line", event_position, screen_x, bottom, screen_x, top,
                          event_colour)>>
                \o (IF triangle_size # 0
                    THEN <<SvgPolygon("event_triangle", event_position,
                                      << <<RSub(screen_x, tri), RSub(top, tri)>>,
                                         <<RAdd(screen_x, tri), RSub(top, tri)>>,
                                         <<screen_x, top>> >>,
                                      event_colour, event_colour)>>
                    ELSE <<>>)
                \o <<SvgText("event_label", event_position, event.name, screen_x, label_y,
                             IF st.event_label_text_rotation # 0 THEN "start" ELSE "middle",
                             IF st.event_label_text_rotation # 0
                             THEN rotation_transform(-st.event_label_text_rotation,
                                                     screen_x, label_y)
                             ELSE None)>>
    IN  FlatOk(ForRange(F, 1, Len(event_positions)))

(***************************************************************************)
(* render: the series geometry                                              *)
(***************************************************************************)
\* a slip of ScreenPoints: the x of a point counted over the present values
RECURSIVE ScreenPointsFrom(_, _, _, _, _)
ScreenPointsFrom(data, xs, ys, height, k) ==
    IF data = <<>> THEN <<>>
    ELSE IF IsNone(Head(data)) THEN ScreenPointsFrom(Tail(data), xs, ys, height, k)
    ELSE << <<x_math_to_screen(xs, k),
              y_math_to_screen(ys, height, RInt(Val(Head(data))))>> >>
         \o ScreenPointsFrom(Tail(data), xs, ys, height, k + 1)

ScreenPoints_packed(data, xs, ys, height) == ScreenPointsFrom(data, xs, ys, height, 0)

\* "Calculate screen coordinates for each of the series": the list of
\* (screen_x, screen_y) of the present values of data, in index order
ScreenPoints(data, xs, ys, height) ==
    LET F(i) ==
            IF IsNone(data[i + 1]) THEN <<>>
            ELSE << <<x_math_to_screen(xs, i),
                      y_math_to_screen(ys, height, RInt(Val(data[i + 1])))>> >>
    IN  ForRange(F, 0, Len(data) - 1)

\* a slip of IsDegenerate: the test made on the unclamped step count
IsDegenerate_zero_steps(x_steps) == x_steps = 0

\* the branch of the series geometry: "Degenerate case - 1 point!"
IsDegenerate(x_steps) == x_steps = 1

\* the three passes of the degenerate branch over series with points pts[i]
DrawDegenerate(c, pts) ==
    LET n == Len(c.g.series)
        x_screen_min == c.xs.x_screen_min
        x_screen_max == c.xs.x_screen_max
        y_screen_min == c.ys.y_screen_min
        x_plot_size == RInt(c.lay.x_plot_size)
        Shade(i) ==
            LET sr == c.g.series[i]
            IN  IF sr.style.shade_under_line
                THEN <<SvgPolygon("series_shade", i,
                                  << <<x_screen_min, y_screen_min>>,
                                     <<x_screen_min, pts[i][1][2]>>,
                                     <<x_screen_max, pts[i][1][2]>>,
                                     <<x_screen_max, y_screen_min>> >>,
                                  "None", sr.style.shade_colour)>>
                ELSE <<>>
        Lines(i) ==
            LET sr == c.g.series[i]
            IN  IF sr.style.show_line
                THEN <<SvgLine("series_line", i, x_screen_min, pts[i][1][2],
                               RAdd(x_screen_min, x_plot_size), pts[i][1][2],
                               sr.style.line_colour)>>
                ELSE <<>>
        Points(i) ==
            LET sr == c.g.series[i]
            IN  IF sr.style.show_points
                THEN <<SvgCircle("series_point", i,
                                 RAdd(x_screen_min, RDiv(x_plot_size, RInt(2))),
                                 pts[i][1][2], RInt(sr.style.point_radius), "None")>>
                ELSE <<>>
        Drawn(i) == \/ c.g.series[i].style.shade_under_line
                    \/ c.g.series[i].style.show_line
                    \/ c.g.series[i].style.show_points
    IN  IF \E i \in 1..n : Drawn(i) /\ pts[i] = <<>>
        THEN Raise("series_geometry")
        ELSE FlatOk(ForRange(Shade, 1, n) \o ForRange(Lines, 1, n) \o ForRange(Points, 1, n))

\* a slip of DrawGeneral: one pass, each series drawn whole before the next
DrawGeneral_per_series(c, pts) ==
    LET n == Len(c.g.series)
        y_screen_min == c.ys.y_screen_min
        Shade(i) ==
            LET sr == c.g.series[i]
                p == pts[i]
            IN  IF sr.style.shade_under_line
                THEN <<SvgPolygon("series_shade", i,
                                  << <<p[1][1], y_screen_min>> >> \o p
                                     \o << <<p[Len(p)][1], y_screen_min>> >>,
                                  "None", sr.style.shade_colour)>>
                ELSE <<>>
        Lines(i) ==
            LET sr == c.g.series[i]
                p == pts[i]
                Seg(k) == <<SvgLine("series_line", i, p[k][1], p[k][2],
                                    p[k + 1][1], p[k + 1][2], sr.style.line_colour)>>
            IN  IF sr.style.show_line THEN ForRange(Seg, 1, Len(p) - 1) ELSE <<>>
        Points(i) ==
            LET sr == c.g.series[i]
                p == pts[i]
                Pt(k) == <<SvgCircle("series_point", i, p[k][1], p[k][2],
                                     RInt(sr.style.point_radius), "None")>>
            IN  IF sr.style.show_points THEN ForRange(Pt, 1, Len(p)) ELSE <<>>
        Whole(i) == Shade(i) \o Lines(i) \o Points(i)
    IN  IF \E i \in 1..n : c.g.series[i].style.shade_under_line /\ pts[i] = <<>>
        THEN Raise("series_geometry")
        ELSE FlatOk(ForRange(Whole, 1, n))

\* the three passes of the general branch: "Normal conditions - draw a proper
\* line graph"
DrawGeneral(c, pts) ==
    LET n == Len(c.g.series)
        y_screen_min == c.ys.y_screen_min
        Shade(i) ==
            LET sr == c.g.series[i]
                p == pts[i]
            IN  IF sr.style.shade_under_line
                THEN <<SvgPolygon("series_shade", i,
                                  << <<p[1][1], y_screen_min>> >> \o p
                                     \o << <<p[Len(p)][1], y_screen_min>> >>,
                                  "None", sr.style.shade_colour)>>
                ELSE <<>>
        Lines(i) ==
            LET sr == c.g.series[i]
                p == pts[i]
                Seg(k) == <<SvgLine("series_line", i, p[k][1], p[k][2],
                                    p[k + 1][1], p[k + 1][2], sr.style.line_colour)>>
            IN  IF sr.style.show_line THEN ForRange(Seg, 1, Len(p) - 1) ELSE <<>>
        Points(i) ==
            LET sr == c.g.series[i]
                p == pts[i]
                Pt(k) == <<SvgCircle("series_point", i, p[k][1], p[k][2],
                                     RInt(sr.style.point_radius), "None")>>
            IN  IF sr.style.show_points THEN ForRange(Pt, 1, Len(p)) ELSE <<>>
    IN  IF \E i \in 1..n : c.g.series[i].style.shade_under_line /\ pts[i] = <<>>
        THEN Raise("series_geometry")
        ELSE FlatOk(ForRange(Shade, 1, n) \o ForRange(Lines, 1, n) \o ForRange(Points, 1, n))

DrawSeries(c, pts) ==
    IF IsDegenerate(c.xs.x_steps) THEN DrawDegenerate(c, pts) ELSE DrawGeneral(c, pts)

(***************************************************************************)
(* render                                                                   *)
(***************************************************************************)
\* y_screen_min and y_screen_max
YScreenBounds(ys, height) ==
    [ y_screen_min |-> y_math_to_screen(ys, height, RInt(ys.y_math_offset)),
      y_screen_max |-> y_math_to_screen(ys, height, RInt(ys.y_math_offset + ys.y_math_range)) ]

\* the empty-data guard's placeholder
DrawNoData(lay) ==
    <<SvgRect("no_data", 0, RInt(lay.left_margin), lay.top_margin,
              RInt(lay.x_plot_size), lay.y_plot_size, "#aaa", "transparent"),
      SvgText("no_data", 0, "(no data to display)",
              RAdd(RInt(lay.left_margin), Rat(lay.x_plot_size, 2)),
              RAdd(lay.top_margin, RDiv(lay.y_plot_size, RInt(2))),
              "middle", None)>>

\* what render logs: the warning of get_default_y_interval and the error of
\* the minor interval's sanity check
RenderLog(st, ymin, ymax, y_math_interval) ==
    (IF st.y_interval = 0 /\ TruncDiv(ymax - ymin, target_divisions) < 1
     THEN <<"warn: Not supported: y_intervals < 0">> ELSE <<>>)
    \o (IF MinorIntervalInvalid(st, y_math_interval)
        THEN <<"error: Invalid minor interval">> ELSE <<>>)

\* the sections of render before the screen points are stored, in order
DrawBeforeSeries(c) ==
    << DrawXGrid(c), DrawMidLine(c), DrawYMajor(c), DrawYMinor(c), DrawYAxis(c),
       DrawYScale(c), DrawXLabels(c), DrawXBorder(c), DrawKey(c), DrawEvents(c) >>

RECURSIVE FirstRaise(_, _)
FirstRaise(sections, k) ==
    IF k > Len(sections) THEN 0
    ELSE IF ~sections[k].ok THEN k ELSE FirstRaise(sections, k + 1)

RECURSIVE Flatten(_)
Flatten(sections) ==
    IF sections = <<>> THEN <<>> ELSE Head(sections).calls \o Flatten(Tail(sections))

SvgDocument(width, height, calls) ==
    [kind |-> "svg", width |-> width, height |-> height, calls |-> calls]

Raised(at) == [kind |-> "raise", at |-> at]

\* the context of the draw sections: the graph, the arguments and the locals
Context(g, width, height, lay, xs, ys0) ==
    [ g |-> g, width |-> width, height |-> height, lay |-> lay, xs |-> xs,
      ys |-> ys0 @@ YScreenBounds(ys0, height) ]

RenderLocals(c) ==
    [ stage |-> "scaled", lay |-> c.lay, xs |-> c.xs, ys |-> c.ys,
      log |-> RenderLog(c.g.style, Val(c.g.y_min), Val(c.g.y_max), c.ys.y_math_interval) ]

\* series._screen_points = [...] for every series
StoreScreenPoints(ss, pts) ==
    [i \in 1..Len(ss) |-> [ss[i] EXCEPT !.screen_points = Some(pts[i])]]

AllScreenPoints(c) ==
    [i \in 1..Len(c.g.series) |->
        ScreenPoints(c.g.series[i].data, c.xs, c.ys, c.height)]

\* the last part of render: the series geometry drawn from the stored points
RenderGeometry(c, locals, before, stored, geometry) ==
    IF ~geometry.ok
    THEN [ret |-> Raised(geometry.at), rv |-> locals, series |-> stored]
    ELSE [ ret |-> SvgDocument(c.width, c.height, Flatten(before) \o geometry.calls),
           rv |-> locals, series |-> stored ]

RenderSeries(c, locals, before, pts) ==
    RenderGeometry(c, locals, before, StoreScreenPoints(c.g.series, pts), DrawSeries(c, pts))

RenderSections(c, locals, before, bad) ==
    IF bad # 0
    THEN [ret |-> Raised(before[bad].at), rv |-> locals, series |-> c.g.series]
    ELSE RenderSeries(c, locals, before, AllScreenPoints(c))

RenderDraw(c, before) == RenderSections(c, RenderLocals(c), before, FirstRaise(before, 1))

RenderPlot(c) == RenderDraw(c, DrawBeforeSeries(c))

RenderFrom(g, width, height, lay) ==
    IF ~GraphHasData(g)
    THEN [ ret |-> SvgDocument(width, height, DrawNoData(lay)),
           rv |-> [stage |-> "no_data", lay |-> lay],
           series |-> g.series ]
    ELSE IF IsNone(g.y_min)
    THEN [ ret |-> Raised("y_interval"),
           rv |-> [stage |-> "layout", lay |-> lay],
           series |-> g.series ]
    ELSE RenderPlot(Context(g, width, height, lay, RenderXScale(g, lay), RenderYScale(g, lay)))

\* render(width, height) on the graph g: what it returns or raises (ret), its
\* locals (rv) and the series as it leaves them (series)
Render(g, width, height) == RenderFrom(g, width, height, RenderLayout(g, width, height))

(***************************************************************************)
(* The SvgLineGraph object and its methods as actions                       *)
(***************************************************************************)
Self ==
    [ x_labels |-> x_labels, series |-> series, y_min |-> y_min, y_max |-> y_max,
      x_range |-> x_range, style |-> style, events |-> events ]

NoCall == [kind |-> "none"]

NoRender == [stage |-> "none"]

NoEvents == [p \in {} |-> 0]

\* no other graph exists and no thread runs
NoThreads == [pc |-> <<>>]

\* SvgLineGraph(x_labels, style)
Construct(labels, st) ==
    /\ x_labels = labels
    /\ series = <<>>
    /\ y_min = None
    /\ y_max = None
    /\ x_range = Len(labels)
    /\ style = st
    /\ events = NoEvents
    /\ ret = NoCall
    /\ rv = NoRender
    /\ threads = NoThreads

AddSeriesEffect(s) ==
    /\ series' = Append(series, s)
    /\ y_min' = UpdYMin(y_min, s.data)
    /\ y_max' = UpdYMax(y_max, s.data)
    /\ x_range' = UpdXRange(x_range, s.data)
    /\ UNCHANGED <<x_labels, style, events>>

\* a slip of AddEventEffect: an event already at the position is kept
AddEventEffect_keep_first(e) ==
    /\ events' = [p \in DOMAIN events \cup {e.x_position} |->
                     IF p \in DOMAIN events THEN events[p] ELSE e]
    /\ UNCHANGED <<x_labels, series, y_min, y_max, x_range, style>>

AddEventEffect(e) ==
    /\ events' = [p \in DOMAIN events \cup {e.x_position} |->
                     IF p = e.x_position THEN e ELSE events[p]]
    /\ UNCHANGED <<x_labels, series, y_min, y_max, x_range, style>>

\* add_series(name, series_data, series_style)
add_series(name, series_data, series_style) ==
    /\ AddSeriesEffect(NewSeries(name, series_data, series_style))
    /\ ret' = [kind |-> "series", index |-> Len(series) + 1]
    /\ rv' = NoRender
    /\ UNCHANGED threads

\* add_event(x_position, name, colour)
add_event(x_position, name, colour) ==
    /\ AddEventEffect(NewEvent(x_position, name, colour))
    /\ ret' = NoCall
    /\ rv' = NoRender
    /\ UNCHANGED threads

\* a slip of add: an item that is neither a Series nor an Event is ignored
add_ignore_unknown(item) ==
    /\ CASE item.type = "series" -> AddSeriesEffect(item.value)
         [] item.type = "event" -> AddEventEffect(item.value)
         [] OTHER -> UNCHANGED <<x_labels, series, y_min, y_max, x_range, style, events>>
    /\ ret' = NoCall
    /\ rv' = NoRender
    /\ UNCHANGED threads

\* add(item): item is [type |-> "series" | "event" | anything else, value |-> ...]
add(item) ==
    /\ CASE item.type = "series" -> AddSeriesEffect(item.value) /\ ret' = NoCall
         [] item.type = "event" -> AddEventEffect(item.value) /\ ret' = NoCall
         [] OTHER -> /\ ret' = Raised("ValueError")
                     /\ UNCHANGED <<x_labels, series, y_min, y_max, x_range, style, events>>
    /\ rv' = NoRender
    /\ UNCHANGED threads

\* render(width, height)
render(width, height) ==
    \E out \in {Render(Self, width, height)} :
        /\ ret' = out.ret
        /\ rv' = out.rv
        /\ series' = out.series
        /\ UNCHANGED <<x_labels, y_min, y_max, x_range, style, events, threads>>

\* get_default_y_interval()
call_get_default_y_interval ==
    /\ ret' = IF IsNone(y_min) THEN Raised("TypeError")
              ELSE [kind |-> "value",
                    value |-> get_default_y_interval(Val(y_min), Val(y_max))]
    /\ rv' = NoRender
    /\ UNCHANGED <<x_labels, series, y_min, y_max, x_range, style, events, threads>>

\* series[i].get_rolling_average(average_width)
call_get_rolling_average(i, average_width) ==
    /\ \E o \in {get_rolling_average(series[i].data, average_width)} :
           ret' = IF o.raises # "" THEN Raised(o.raises)
                  ELSE [kind |-> "value", value |-> o.out]
    /\ rv' = [stage |-> "rolling", series |-> i, average_width |-> average_width]
    /\ UNCHANGED <<x_labels, series, y_min, y_max, x_range, style, events, threads>>

(***************************************************************************)
(* Two SvgLineGraph objects, each rendered by a thread of its own.          *)
(* threads.heap holds the Series objects: add(item) appends the object it   *)
(* is given, so two graphs can hold the same one, and a graph's series list *)
(* is a list of positions in the heap.  A render is two steps here: up to   *)
(* the loop that stores _screen_points on the series, and the series        *)
(* geometry that reads them back.                                           *)
(***************************************************************************)
Threads == {1, 2}

\* SvgLineGraph(x_labels, style) as a record
NewGraph(labels, st) ==
    [ x_labels |-> labels, series |-> <<>>, y_min |-> None, y_max |-> None,
      x_range |-> Len(labels), style |-> st, events |-> NoEvents ]

\* _add_series on the graph g, for the Series object at ref in the heap
GraphAddSeries(g, ref, data) ==
    [ g EXCEPT !.series = Append(g.series, ref),
               !.y_min = UpdYMin(g.y_min, data),
               !.y_max = UpdYMax(g.y_max, data),
               !.x_range = UpdXRange(g.x_range, data) ]

\* self.events[x_position] = event on the graph g
GraphAddEvent(g, e) ==
    [ g EXCEPT !.events = [p \in DOMAIN g.events \cup {e.x_position} |->
                              IF p = e.x_position THEN e ELSE g.events[p]] ]

\* the graph g with the Series objects themselves for series
Deref(g, heap) == [g EXCEPT !.series = [i \in 1..Len(g.series) |-> heap[g.series[i]]]]

ThreadContextFrom(g, width, height, lay) ==
    Context(g, width, height, lay, RenderXScale(g, lay), RenderYScale(g, lay))

ThreadContext(g, width, height) ==
    ThreadContextFrom(g, width, height, RenderLayout(g, width, height))

\* the first step of render: either it is over (done) with what it returns or
\* raises, or the screen points pts[i] are stored on the i-th series
StoreOutcomeSections(c, before, bad) ==
    IF bad # 0
    THEN [done |-> TRUE, ret |-> Raised(before[bad].at), pts |-> <<>>]
    ELSE [done |-> FALSE, ret |-> NoCall, pts |-> AllScreenPoints(c)]

StoreOutcomeDraw(c, before) == StoreOutcomeSections(c, before, FirstRaise(before, 1))

StoreOutcomeFrom(g, width, height, lay) ==
    IF ~GraphHasData(g)
    THEN [done |-> TRUE, ret |-> SvgDocument(width, height, DrawNoData(lay)), pts |-> <<>>]
    ELSE IF IsNone(g.y_min)
    THEN [done |-> TRUE, ret |-> Raised("y_interval"), pts |-> <<>>]
    ELSE StoreOutcomeDraw(ThreadContextFrom(g, width, height, lay),
                          DrawBeforeSeries(ThreadContextFrom(g, width, height, lay)))

StoreOutcome(g, width, height) ==
    StoreOutcomeFrom(g, width, height, RenderLayout(g, width, height))

\* series._screen_points = [...] for the series of one graph, in the heap
StoreInHeap(heap, refs, pts) ==
    [ ref \in 1..Len(heap) |->
        IF \E i \in 1..Len(refs) : refs[i] = ref
        THEN [heap[ref] EXCEPT !.screen_points =
                 Some(pts[CHOOSE i \in 1..Len(refs) :
                              /\ refs[i] = ref
                              /\ \A k \in 1..Len(refs) : refs[k] = ref => k <= i])]
        ELSE heap[ref] ]

\* the second step of render: the series geometry, drawn from the
\* _screen_points the series hold now
StoredPoints(g) == [i \in 1..Len(g.series) |-> Val(g.series[i].screen_points)]

DrawOutcomeFrom(c, before, geometry) ==
    IF ~geometry.ok THEN Raised(geometry.at)
    ELSE SvgDocument(c.width, c.height, Flatten(before) \o geometry.calls)

DrawOutcome(g, width, height) ==
    DrawOutcomeFrom(ThreadContext(g, width, height),
                    DrawBeforeSeries(ThreadContext(g, width, height)),
                    DrawSeries(ThreadContext(g, width, height), StoredPoints(g)))

\* the variables of the single graph, which the threads leave alone
graph_vars == <<x_labels, series, y_min, y_max, x_range, style, events, ret, rv>>

\* graph t: add_series(name, series_data, series_style), which makes a new
\* Series object
thread_add_series(t, name, series_data, series_style) ==
    /\ threads' =
         [ threads EXCEPT
             !.heap = Append(threads.heap, NewSeries(name, series_data, series_style)),
             !.graph[t] = GraphAddSeries(threads.graph[t], Len(threads.heap) + 1,
                                         series_data) ]
    /\ UNCHANGED graph_vars

\* graph t: add(item) for the Series object at ref
thread_add(t, ref) ==
    /\ threads' =
         [ threads EXCEPT
             !.graph[t] = GraphAddSeries(threads.graph[t], ref, threads.heap[ref].data) ]
    /\ UNCHANGED graph_vars

\* graph t: add_event(x_position, name, colour)
thread_add_event(t, x_position, name, colour) ==
    /\ threads' =
         [ threads EXCEPT
             !.graph[t] = GraphAddEvent(threads.graph[t],
                                        NewEvent(x_position, name, colour)) ]
    /\ UNCHANGED graph_vars

\* thread t: render(width, height) on graph t, up to the stored screen points
thread_render_store(t) ==
    /\ threads.pc[t] = "idle"
    /\ \E o \in { StoreOutcome(Deref(threads.graph[t], threads.heap),
                               threads.size[t][1], threads.size[t][2]) } :
           threads' =
             IF o.done
             THEN [threads EXCEPT !.pc[t] = "done", !.out[t] = o.ret]
             ELSE [threads EXCEPT
                     !.pc[t] = "stored",
                     !.heap = StoreInHeap(threads.heap, threads.graph[t].series, o.pts)]
    /\ UNCHANGED graph_vars

\* thread t: the rest of render, the series geometry
thread_render_draw(t) ==
    /\ threads.pc[t] = "stored"
    /\ \E o \in { DrawOutcome(Deref(threads.graph[t], threads.heap),
                              threads.size[t][1], threads.size[t][2]) } :
           threads' = [threads EXCEPT !.pc[t] = "done", !.out[t] = o]
    /\ UNCHANGED graph_vars

(***************************************************************************)
(* Graphs the specifications start from: the state after SvgLineGraph(...)  *)
(* and a sequence of add_series calls                                       *)
(***************************************************************************)
RECURSIVE FoldYMin(_, _)
FoldYMin(cur, ss) == IF ss = <<>> THEN cur ELSE FoldYMin(UpdYMin(cur, Head(ss).data), Tail(ss))

RECURSIVE FoldYMax(_, _)
FoldYMax(cur, ss) == IF ss = <<>> THEN cur ELSE FoldYMax(UpdYMax(cur, Head(ss).data), Tail(ss))

RECURSIVE FoldXRange(_, _)
FoldXRange(cur, ss) ==
    IF ss = <<>> THEN cur ELSE FoldXRange(UpdXRange(cur, Head(ss).data), Tail(ss))

GraphWith(labels, st, ss) ==
    /\ x_labels = labels
    /\ series = ss
    /\ y_min = FoldYMin(None, ss)
    /\ y_max = FoldYMax(None, ss)
    /\ x_range = FoldXRange(Len(labels), ss)
    /\ style = st
    /\ events = NoEvents
    /\ ret = NoCall
    /\ rv = NoRender
    /\ threads = NoThreads

(***************************************************************************)
(* Spec: a graph is constructed with labels, series are added and it is     *)
(* rendered; the series are drawn as a line with point markers              *)
(***************************************************************************)
AllLabels == <<"Jan", "", "Mar", "", "May", "", "Jul", "">>

\* x_labels of n labels
LabelsOf(n) == SubSeq(AllLabels, 1, n)

LabelLens == {0, 1, MaxLen}

\* the names given to the series, in the order they are added
SeriesNames == <<"Sales", "Costs">>

DataValues == {None, Some(10), Some(20)}

\* every data list of at most n values
SeqsUpTo(S, n) == UNION {[1..k -> S] : k \in 0..n}

LinePointsStyle == [DefaultSeriesStyle EXCEPT !.show_points = TRUE]

RenderWidth == 400

RenderHeight == 300

Init == \E n \in LabelLens : Construct(LabelsOf(n), DefaultStyle)

AddSeries ==
    /\ Len(series) < Len(SeriesNames)
    /\ \E data \in SeqsUpTo(DataValues, MaxLen) :
           add_series(SeriesNames[Len(series) + 1], data, LinePointsStyle)

DoRender == render(RenderWidth, RenderHeight)

Next == AddSeries \/ DoRender

Spec == Init /\ [][Next]_vars

(***************************************************************************)
(* SpecSel: the interval selector on a graph of one series [a, a + d], for  *)
(* every range d up to MaxDelta                                             *)
(***************************************************************************)
SelMins == {-7, 0, 3}

InitSel ==
    \E a \in SelMins, d \in 0..MaxDelta :
        GraphWith(<<"Jan", "Feb">>, DefaultStyle,
                  <<NewSeries("Sales", <<Some(a), Some(a + d)>>, DefaultSeriesStyle)>>)

SelCallInterval == ret.kind = "none" /\ call_get_default_y_interval

SelRender == ret.kind = "none" /\ render(RenderWidth, RenderHeight)

NextSel == SelCallInterval \/ SelRender

SpecSel == InitSel /\ [][NextSel]_vars

(***************************************************************************)
(* SpecRange: the y range of a graph of one series [a, b], for fixed and    *)
(* automatic intervals, start_y_from_zero and y_min_intervals               *)
(***************************************************************************)
RangeScales == {1, 7}

RangeIntervals == {0, 3}

RangeStyles ==
    { [DefaultStyle EXCEPT !.y_interval = i, !.y_min_intervals = m, !.start_y_from_zero = z] :
        i \in RangeIntervals, m \in 0..MaxMinIntervals, z \in BOOLEAN }

InitRange ==
    \E k \in RangeScales, a \in -MaxAbsY..MaxAbsY, b \in -MaxAbsY..MaxAbsY, st \in RangeStyles :
        /\ a <= b
        /\ GraphWith(<<"Jan", "Feb">>, st,
                     <<NewSeries("Sales", <<Some(k * a), Some(k * b)>>, DefaultSeriesStyle)>>)

RangeRender == ret.kind = "none" /\ render(RenderWidth, RenderHeight)

NextRange == RangeRender

SpecRange == InitRange /\ [][NextRange]_vars

(***************************************************************************)
(* SpecAdd: a graph is constructed with labels and a style, and series and  *)
(* events are added to it with add_series, add_event and add, in any order, *)
(* with renders in between                                                  *)
(***************************************************************************)
AddLabelLens == {0, 1, 2}

AddStyles ==
    { DefaultStyle,
      [DefaultStyle EXCEPT !.show_key = FALSE, !.x_scale_border = TRUE,
                           !.show_minor_x_grid_lines = FALSE] }

\* the data given to add_series
AddData == { <<>>, <<Some(10)>>, <<Some(20), Some(-5)>> }

\* the data of the Series objects given to add
ItemData == { <<None>>, <<None, Some(15)>> }

EventPositions == {0, 1}

EventNames == {"Launch", "Sale"}

\* the items given to add: Series objects, Event objects and other objects
SeriesItems ==
    { [type |-> "series", value |-> NewSeries("Item", data, DefaultSeriesStyle)] :
        data \in ItemData }

EventItems == { [type |-> "event", value |-> NewEvent(1, "Launch", "None")] }

OtherItems == { [type |-> "str", value |-> "Sales"], [type |-> "NoneType", value |-> None] }

\* the sizes render is called with
RenderSizes == { <<RenderWidth, RenderHeight>>, <<RenderWidth \div 2, RenderHeight>> }

InitAdd == \E n \in AddLabelLens, st \in AddStyles : Construct(LabelsOf(n), st)

AddCallAddSeries ==
    /\ Len(series) < Len(SeriesNames)
    /\ \E data \in AddData :
           add_series(SeriesNames[Len(series) + 1], data, LinePointsStyle)

AddCallAddEvent ==
    \E x_position \in EventPositions, name \in EventNames :
        add_event(x_position, name, "#ff0000")

AddCallAdd ==
    \E item \in SeriesItems \cup EventItems \cup OtherItems :
        /\ item.type = "series" => Len(series) < Len(SeriesNames)
        /\ add(item)

AddCallRender == \E size \in RenderSizes : render(size[1], size[2])

NextAdd == AddCallAddSeries \/ AddCallAddEvent \/ AddCallAdd \/ AddCallRender

SpecAdd == InitAdd /\ [][NextAdd]_vars

(***************************************************************************)
(* SpecExample: the four-label graph of the end-to-end example, with one    *)
(* series of four values, rendered with and without start_y_from_zero       *)
(***************************************************************************)
ExampleLabels == <<"Jan", "", "", "Apr">>

ExampleData == <<Some(10), Some(20), Some(15), Some(40)>>

\* the values a series of the example is made of
ExampleValues == {ExampleData[j] : j \in 1..Len(ExampleData)}

InitExample ==
    \E z \in BOOLEAN : Construct(ExampleLabels, [DefaultStyle EXCEPT !.start_y_from_zero = z])

ExampleAddSeries ==
    /\ Len(series) = 0
    /\ \E data \in [1..Len(ExampleLabels) -> ExampleValues] :
           add_series("Sales", data, DefaultSeriesStyle)

ExampleRender ==
    /\ Len(series) = 1
    /\ rv.stage = "none"
    /\ render(RenderWidth, RenderHeight)

NextExample == ExampleAddSeries \/ ExampleRender

SpecExample == InitExample /\ [][NextExample]_vars

(***************************************************************************)
(* SpecThreads: two graphs are populated with add_series, add and           *)
(* add_event, then each is rendered by its own thread, the two renders      *)
(* interleaved in every way                                                 *)
(***************************************************************************)
ThreadData == { <<Some(10), None, Some(20)>>, <<Some(20), Some(10)>> }

InitThreads ==
    /\ x_labels = <<>>
    /\ series = <<>>
    /\ y_min = None
    /\ y_max = None
    /\ x_range = 0
    /\ style = DefaultStyle
    /\ events = NoEvents
    /\ ret = NoCall
    /\ rv = NoRender
    /\ \E size \in RenderSizes :
           threads = [ heap |-> <<>>,
                       graph |-> [t \in Threads |-> NewGraph(LabelsOf(MaxLen), DefaultStyle)],
                       pc |-> [t \in Threads |-> "idle"],
                       size |-> [t \in Threads |->
                                    IF t = 1 THEN <<RenderWidth, RenderHeight>> ELSE size],
                       out |-> [t \in Threads |-> NoCall] ]

\* the graphs are populated before the threads start
Populating == \A t \in Threads : threads.pc[t] = "idle"

ThreadsAddSeries ==
    /\ Populating
    /\ Len(threads.heap) < Len(SeriesNames)
    /\ \E t \in Threads, data \in ThreadData :
           thread_add_series(t, SeriesNames[Len(threads.heap) + 1], data, LinePointsStyle)

ThreadsAdd ==
    /\ Populating
    /\ \E t \in Threads, ref \in 1..Len(threads.heap) :
           /\ \A i \in 1..Len(threads.graph[t].series) : threads.graph[t].series[i] # ref
           /\ thread_add(t, ref)

ThreadsAddEvent ==
    /\ Populating
    /\ \E t \in Threads :
           /\ DOMAIN threads.graph[t].events = {}
           /\ thread_add_event(t, 1, "Launch", "None")

ThreadsRenderStore == \E t \in Threads : thread_render_store(t)

ThreadsRenderDraw == \E t \in Threads : thread_render_draw(t)

NextThreads ==
    \/ ThreadsAddSeries
    \/ ThreadsAdd
    \/ ThreadsAddEvent
    \/ ThreadsRenderStore
    \/ ThreadsRenderDraw

SpecThreads == InitThreads /\ [][NextThreads]_vars

(***************************************************************************)
(* SpecAvg: get_rolling_average is called, with every width from 0 to one   *)
(* more than the longest data, on a series of every data of up to           *)
(* MaxLen + 1 values                                                        *)
(***************************************************************************)
AvgValues == {None, Some(10), Some(25)}

AvgWidths == 0..(MaxLen + 2)

InitAvg ==
    \E data \in SeqsUpTo(AvgValues, MaxLen + 1) :
        GraphWith(<<"Jan">>, DefaultStyle, <<NewSeries("Sales", data, DefaultSeriesStyle)>>)

AvgCall == \E average_width \in AvgWidths : call_get_rolling_average(1, average_width)

NextAvg == AvgCall

SpecAvg == InitAvg /\ [][NextAvg]_vars

(***************************************************************************)
(* Claims                                                                   *)
(***************************************************************************)
\* the members of {1, 2, 5} x 10^n, n >= 0, up to 10^(digits of limit + 1)
NiceNumbers(limit) ==
    {m * Pow10(n) : m \in {1, 2, 5}, n \in 0..(NumDigits(limit) + 1)}

\* C1: get_default_y_interval returns 1 when target = floor((y_max - y_min) / 10)
\* is below 1, and otherwise the smallest member of {1, 2, 5} x 10^n that is
\* >= target; the result is always a member of {1, 2, 5} x 10^n.
C1_SmallestNiceInterval ==
    ret.kind = "value" =>
        LET target == (Val(y_max) - Val(y_min)) \div 10
            nice == NiceNumbers(Max2(target, 1))
        IN  /\ ret.value \in nice
            /\ target < 1 => ret.value = 1
            /\ target >= 1 =>
                   /\ ret.value >= target
                   /\ \A m \in nice : m >= target => ret.value <= m

C1_Witness ==
    /\ ret.kind = "value"
    /\ ret.value = 500
    /\ Val(y_max) - Val(y_min) = 2010

\* the calls of an SVG document made by statement src for index idx
CallsOf(calls, src, idx) ==
    SelectSeq(calls, LAMBDA call : call.src = src /\ call.idx = idx)

CallsFrom(calls, src) == SelectSeq(calls, LAMBDA call : call.src = src)

\* the number of major y divisions of the latest render
Divisions == rv.ys.y_range_max - rv.ys.y_range_min

AutoInterval ==
    /\ style.y_interval = 0
    /\ style.y_min_intervals = 0
    /\ ~style.start_y_from_zero

\* C2 (as stated): for every graph with y_max > y_min rendered with the
\* automatic interval, the number of major y divisions is between 5 and 20.
C2_DivisionsBetween5And20 ==
    (rv.stage = "scaled" /\ AutoInterval /\ Val(y_max) > Val(y_min)) =>
        (Divisions >= 5 /\ Divisions <= 20)

\* C2 (amended): for integer data with y_max - y_min >= 5 rendered with the
\* automatic interval, the number of major y divisions is between 5 and 20.
C2_DivisionsFromRange5 ==
    (rv.stage = "scaled" /\ AutoInterval /\ Val(y_max) - Val(y_min) >= 5) =>
        (Divisions >= 5 /\ Divisions <= 20)

C2_Witness ==
    /\ rv.stage = "scaled"
    /\ AutoInterval
    /\ Val(y_max) - Val(y_min) = 2010
    /\ Val(y_min) = 0
    /\ Divisions = 5

\* the range the enlargement starts from and what it adds on each side
GrownBelow == rv.ys.zeroed.min - rv.ys.y_range_min

GrownAbove == rv.ys.y_range_max - rv.ys.zeroed.max

\* C3: with y_min_intervals set, enlarging the y range never crosses zero on
\* a side that was already one-signed: a range that was entirely non-negative
\* keeps range_min >= 0, one that was entirely non-positive keeps
\* range_max <= 0.
C3_EnlargeNeverCrossesZero ==
    (rv.stage = "scaled" /\ style.y_min_intervals # 0) =>
        /\ rv.ys.zeroed.min >= 0 => rv.ys.y_range_min >= 0
        /\ rv.ys.zeroed.max <= 0 => rv.ys.y_range_max <= 0

\* C4: whenever y_min_intervals is configured, the y range used for
\* rendering has at least y_min_intervals divisions, and as many major steps
\* are drawn.
C4_AtLeastMinIntervals ==
    (ret.kind = "svg" /\ rv.stage = "scaled" /\ style.y_min_intervals # 0) =>
        /\ Divisions >= style.y_min_intervals
        /\ rv.ys.y_steps >= style.y_min_intervals
        /\ Len(CallsFrom(ret.calls, "y_major")) >= style.y_min_intervals + 1

C4_Witness ==
    /\ ret.kind = "svg"
    /\ style.y_min_intervals = MaxMinIntervals
    /\ style.start_y_from_zero
    /\ rv.ys.zeroed.min = 0
    /\ rv.ys.y_range_min = 0
    /\ GrownAbove = MaxMinIntervals - 1

\* the enlargement was made, by an odd number of divisions, and the guard
\* against crossing the axis did not change the split
OddUnclampedEnlargement ==
    /\ rv.stage = "scaled"
    /\ rv.ys.grown.enlarged
    /\ (style.y_min_intervals - (rv.ys.zeroed.max - rv.ys.zeroed.min)) % 2 = 1
    /\ ~(rv.ys.zeroed.min >= 0 /\ rv.ys.zeroed.min - rv.ys.grown.split_below < 0)

\* C5 (as stated): when the range is enlarged by an odd number of divisions
\* and no zero-clamp applies, the larger half is added above the range.
C5_LargerHalfAbove == OddUnclampedEnlargement => GrownAbove = GrownBelow + 1

\* C5 (amended): when the range is enlarged by an odd number of divisions
\* and no zero-clamp applies, the larger half is added below the range
\* (add_below = add_above + 1).
C5_LargerHalfBelow == OddUnclampedEnlargement => GrownBelow = GrownAbove + 1

C5_Witness ==
    /\ OddUnclampedEnlargement
    /\ GrownBelow = 2
    /\ GrownAbove = 1
    /\ rv.ys.zeroed.min < 0

\* C6: if start_y_from_zero is set, the snapped y range includes zero, for
\* data entirely positive and entirely negative, and the bound on the far
\* side of zero is the snapped one.
C6_StartFromZeroIncludesZero ==
    (rv.stage = "scaled" /\ style.start_y_from_zero) =>
        LET interval == rv.ys.y_math_interval
            lo == FloorDiv(Val(y_min), interval)
            hi == CeilDiv(Val(y_max), interval)
        IN  /\ rv.ys.zeroed.min <= 0
            /\ rv.ys.zeroed.max >= 0
            /\ lo > 0 => rv.ys.zeroed.max = hi
            /\ hi < 0 => rv.ys.zeroed.min = lo
            /\ rv.ys.y_range_min <= 0
            /\ rv.ys.y_range_max >= 0

C6_Witness ==
    /\ rv.stage = "scaled"
    /\ style.start_y_from_zero
    /\ Val(y_max) < 0
    /\ rv.ys.y_math_interval = 3
    /\ rv.ys.zeroed.max = 0
    /\ rv.ys.zeroed.min = -3

\* C7: if y_min < 0 < y_max, one of the major y gridlines drawn is the step
\* at math-y = 0, for fixed and automatic intervals and after start-from-zero
\* and minimum-interval enlargement.
C7_StraddleHasZeroStep ==
    (ret.kind = "svg" /\ rv.stage = "scaled" /\ Val(y_min) < 0 /\ Val(y_max) > 0) =>
        \E k \in 0..rv.ys.y_steps :
            /\ rv.ys.y_math_offset + k * rv.ys.y_math_interval = 0
            /\ \E n \in 1..Len(ret.calls) :
                   /\ ret.calls[n].src = "y_major"
                   /\ ret.calls[n].idx = k
                   /\ ret.calls[n].y1 = y_math_to_screen(rv.ys, ret.height, RInt(0))
                   /\ ret.calls[n].y2 = ret.calls[n].y1

C7_Witness ==
    /\ ret.kind = "svg"
    /\ Val(y_min) = -1
    /\ Val(y_max) = 1
    /\ style.y_interval = 3
    /\ style.y_min_intervals = MaxMinIntervals
    /\ rv.ys.grown.enlarged

\* the positions of the present values in the data of series i, in order
PresentIndices(i) ==
    SelectSeq([j \in 1..Len(series[i].data) |-> j],
              LAMBDA j : ~IsNone(series[i].data[j]))

\* the screen x of column j (from 0) of a plot of x_range columns, and the
\* screen y of the value at position j of series i
ColumnX(j) == RAdd(RInt(rv.lay.left_margin), Rat(j * rv.lay.x_plot_size, x_range - 1))

ValueY(i, j) == y_math_to_screen(rv.ys, ret.height, RInt(Val(series[i].data[j])))

IsPointAt(call, i, j) ==
    /\ call.op = "circle"
    /\ call.cx = ColumnX(j - 1)
    /\ call.cy = ValueY(i, j)

IsSegment(call, i, j1, j2) ==
    /\ call.op = "line"
    /\ call.x1 = ColumnX(j1 - 1)
    /\ call.y1 = ValueY(i, j1)
    /\ call.x2 = ColumnX(j2 - 1)
    /\ call.y2 = ValueY(i, j2)

\* C8: the degenerate single-column branch is taken only when x_range = 1:
\* for every graph with x_range >= 2 each present point is drawn at its own
\* x column and consecutive present points are joined by a segment between
\* their own y values.
C8_GeneralBranchFromTwoColumns ==
    (ret.kind = "svg" /\ rv.stage = "scaled" /\ x_range >= 2) =>
        \A i \in 1..Len(series) :
            LET present == PresentIndices(i)
                points == CallsOf(ret.calls, "series_point", i)
                lines == CallsOf(ret.calls, "series_line", i)
            IN  /\ Len(points) = Len(present)
                /\ \A k \in 1..Len(present) : IsPointAt(points[k], i, present[k])
                /\ Len(lines) = Max2(Len(present) - 1, 0)
                /\ \A k \in 1..Len(lines) :
                       IsSegment(lines[k], i, present[k], present[k + 1])

\* C9: when x_range = 1, a series with show_line produces exactly one line
\* segment, horizontal at the screen y of its single value and spanning the
\* plot from x_screen_min to x_screen_min + x_plot_size; its shown point is
\* centred horizontally in the plot.
C9_SingleColumnSegment ==
    (ret.kind = "svg" /\ rv.stage = "scaled" /\ x_range = 1) =>
        \A i \in 1..Len(series) :
            LET lines == CallsOf(ret.calls, "series_line", i)
                points == CallsOf(ret.calls, "series_point", i)
                left == RInt(rv.lay.left_margin)
            IN  /\ series[i].style.show_line =>
                    /\ Len(lines) = 1
                    /\ lines[1].op = "line"
                    /\ lines[1].x1 = left
                    /\ lines[1].x1 = rv.xs.x_screen_min
                    /\ lines[1].x2 = RAdd(left, RInt(rv.lay.x_plot_size))
                    /\ lines[1].y1 = ValueY(i, 1)
                    /\ lines[1].y2 = ValueY(i, 1)
                /\ series[i].style.show_points =>
                    /\ Len(points) = 1
                    /\ points[1].op = "circle"
                    /\ points[1].cx = RAdd(left, Rat(rv.lay.x_plot_size, 2))
                    /\ points[1].cy = ValueY(i, 1)

C9_Witness ==
    /\ ret.kind = "svg"
    /\ x_range = 1
    /\ Len(series) = 2
    /\ series[1].data = <<Some(10)>>
    /\ series[2].data = <<Some(20)>>
    /\ Len(CallsFrom(ret.calls, "series_line")) = 2

\* C10: in the general branch a series with P present values at indices
\* i1 < ... < iP is drawn with exactly P point markers at the x columns
\* i1..iP and exactly max(P - 1, 0) line segments, the k-th joining the k-th
\* and (k+1)-th present points; absent values do not shift the x index of
\* later points.
C10_PresentPointsKeepColumns ==
    (ret.kind = "svg" /\ rv.stage = "scaled" /\ rv.xs.x_steps # 1) =>
        \A i \in 1..Len(series) :
            LET present == PresentIndices(i)
                points == CallsOf(ret.calls, "series_point", i)
                lines == CallsOf(ret.calls, "series_line", i)
            IN  /\ Len(points) = Len(present)
                /\ \A k \in 1..Len(present) : IsPointAt(points[k], i, present[k])
                /\ Len(lines) = Max2(Len(present) - 1, 0)
                /\ \A k \in 1..Len(lines) :
                       IsSegment(lines[k], i, present[k], present[k + 1])

C10_Witness ==
    /\ ret.kind = "svg"
    /\ rv.stage = "scaled"
    /\ rv.xs.x_steps = MaxLen - 1
    /\ Len(series) = 2
    /\ series[1].data = <<Some(10)>> \o [j \in 1..MaxLen - 2 |-> None] \o <<Some(20)>>
    /\ series[2].data = <<None, Some(20)>>
    /\ Len(CallsOf(ret.calls, "series_line", 1)) = 1
    /\ Len(CallsOf(ret.calls, "series_point", 2)) = 1

\* render was the latest call made on the graph
Rendered == rv.stage # "none"

\* some series of the graph holds a non-absent value
HasPresentValue ==
    \E i \in 1..Len(series) : \E j \in 1..Len(series[i].data) : ~IsNone(series[i].data[j])

\* C11: render reads the x labels with bounds checks: for a graph whose
\* x_labels list is shorter than its longest series (or was not supplied),
\* render completes without raising and draws no label for a missing one.
C11_LabelsReadWithBoundsChecks ==
    (Rendered /\ HasPresentValue /\ Len(x_labels) < x_range) =>
        /\ ret.kind = "svg"
        /\ \A n \in 1..Len(ret.calls) :
               ret.calls[n].src = "x_label" => ret.calls[n].idx < Len(x_labels)

\* the x labels cover the longest series
LabelsCoverSeries == Len(x_labels) >= x_range

\* C12: degenerate-but-valid data is never an error: for every graph that has
\* at least one series with a data point, render returns a document, also
\* when other series are empty or hold only absent values, when all values
\* are equal and when there is a single data point.
C12_DegenerateDataRenders ==
    (Rendered /\ HasPresentValue /\ LabelsCoverSeries) => ret.kind = "svg"

\* no series of the graph has a data point
NoDataPoint == \A i \in 1..Len(series) : Len(series[i].data) = 0

\* C13: if no series has any data point, render emits exactly a bordered
\* placeholder rectangle over the plot area and the centred
\* '(no data to display)' text and returns: no gridline, axis, scale label,
\* key entry, event marker or series geometry, whatever labels, events and
\* style are set.
C13_NoDataPlaceholderOnly ==
    (Rendered /\ NoDataPoint) =>
        LET left == style.y_scale_text_width + style.left_margin
            plot_width == ret.width - left - style.right_margin
            events_height == IF DOMAIN events # {} THEN style.event_label_text_height
                             ELSE 0
            top == RAdd(Rat(style.scale_text_size, 2), RInt(style.top_margin + events_height))
        IN  /\ ret.kind = "svg"
            /\ Len(ret.calls) = 2
            /\ ret.calls[1].op = "rect"
            /\ ret.calls[1].stroke = "#aaa"
            /\ ret.calls[1].x = RInt(left)
            /\ ret.calls[1].y = top
            /\ ret.calls[1].w = RInt(plot_width)
            /\ ret.calls[1].h = rv.lay.y_plot_size
            /\ ret.calls[2].op = "text"
            /\ ret.calls[2].str = "(no data to display)"
            /\ ret.calls[2].anchor = "middle"
            /\ ret.calls[2].x = RAdd(RInt(left), Rat(plot_width, 2))
            /\ ret.calls[2].y = RAdd(top, RDiv(rv.lay.y_plot_size, RInt(2)))

C13_Witness ==
    /\ Rendered
    /\ NoDataPoint
    /\ Len(series) = 2
    /\ DOMAIN events = EventPositions
    /\ Len(x_labels) = 2
    /\ ~style.show_key
    /\ ret.kind = "svg"
    /\ Len(ret.calls) = 2

\* C14: if the snapped y math range is zero (all data equal to a multiple v
\* of the interval, no enlargement applied), the rendered y range is widened
\* by exactly one major interval on each side: y_math_min = v - interval,
\* y_math_max = v + interval, and exactly 2 major steps are drawn.
C14_ZeroRangeWidenedByOneInterval ==
    (rv.stage = "scaled" /\ rv.ys.y_range_min = rv.ys.y_range_max) =>
        /\ Val(y_min) = Val(y_max)
        /\ rv.ys.y_math_min = Val(y_min) - rv.ys.y_math_interval
        /\ rv.ys.y_math_max = Val(y_max) + rv.ys.y_math_interval
        /\ rv.ys.y_math_range = 2 * rv.ys.y_math_interval
        /\ rv.ys.y_steps = 2
        /\ ret.kind = "svg" => Len(CallsFrom(ret.calls, "y_major")) = 3

C14_Witness ==
    /\ ret.kind = "svg"
    /\ rv.stage = "scaled"
    /\ Val(y_min) = 21
    /\ Val(y_max) = 21
    /\ rv.ys.y_math_interval = 3
    /\ rv.ys.y_math_min = 18
    /\ rv.ys.y_math_max = 24
    /\ Len(CallsFrom(ret.calls, "y_major")) = 3

\* the end-to-end example was rendered
ExampleRendered ==
    /\ Rendered
    /\ x_labels = ExampleLabels
    /\ Len(series) = 1
    /\ series[1].data = ExampleData

\* C15 (as stated): for the end-to-end example rendered with the default
\* style, the y-axis range covers [0, 40]: y_math_min <= 0 and
\* y_math_max >= 40.
C15_ExampleRangeCoversZeroTo40 ==
    (ExampleRendered /\ ~style.start_y_from_zero) =>
        /\ ret.kind = "svg"
        /\ rv.ys.y_math_min <= 0
        /\ rv.ys.y_math_max >= 40

\* C15 (amended): for the end-to-end example rendered with the default style
\* the interval is 5 and the y-axis range is [10, 40], from the smallest to
\* the largest value; it covers [0, 40] when start_y_from_zero is set.
C15_ExampleRangeFromDataMin ==
    ExampleRendered =>
        /\ ret.kind = "svg"
        /\ ret.width = RenderWidth
        /\ ret.height = RenderHeight
        /\ rv.ys.y_math_interval = 5
        /\ rv.ys.y_math_min = (IF style.start_y_from_zero THEN 0 ELSE 10)
        /\ rv.ys.y_math_max = 40

C15_Witness ==
    /\ ExampleRendered
    /\ ~style.start_y_from_zero
    /\ ret.kind = "svg"
    /\ rv.ys.y_math_min = 10
    /\ rv.ys.y_steps = 6

\* the non-absent values of all the series added to the graph
PresentValues ==
    UNION { {Val(series[i].data[j]) : j \in {k \in 1..Len(series[i].data) :
                                                ~IsNone(series[i].data[k])}} :
            i \in 1..Len(series) }

\* the x-label count and the lengths of the series added to the graph
ColumnCounts == {Len(x_labels)} \cup {Len(series[i].data) : i \in 1..Len(series)}

\* C16: after any sequence of add_series / add(Series) calls, y_min and y_max
\* are the minimum and the maximum over all non-absent values of all added
\* series (both None exactly when there is none, otherwise y_min <= y_max),
\* and x_range is the maximum of the x-label count and the length of the
\* longest added series.
C16_RunningRangeOfAddedSeries ==
    /\ IsNone(y_min) <=> PresentValues = {}
    /\ IsNone(y_max) <=> PresentValues = {}
    /\ PresentValues # {} =>
        /\ Val(y_min) \in PresentValues
        /\ Val(y_max) \in PresentValues
        /\ \A v \in PresentValues : Val(y_min) <= v /\ v <= Val(y_max)
        /\ Val(y_min) <= Val(y_max)
    /\ x_range \in ColumnCounts
    /\ \A n \in ColumnCounts : n <= x_range

C16_Witness ==
    /\ Len(series) = 2
    /\ series[1].data = <<Some(20), Some(-5)>>
    /\ series[2].name = "Item"
    /\ series[2].data = <<None, Some(15)>>
    /\ y_min = Some(-5)
    /\ y_max = Some(20)
    /\ Len(x_labels) = 1
    /\ x_range = 2

\* the step puts the event e at its position: it is the event of that
\* position afterwards, the events at other positions and the series list
\* are as before
EventPut(e) ==
    /\ DOMAIN events' = DOMAIN events \cup {e.x_position}
    /\ events'[e.x_position] = e
    /\ \A q \in DOMAIN events \ {e.x_position} : events'[q] = events[q]
    /\ series' = series

\* C17: after any sequence of add_event / add(Event) calls the event mapping
\* holds one event per distinct x_position, the event of the last call made
\* for that position: each call puts its event at its position, replacing
\* the former one, and leaves the events at other positions and the series
\* list unchanged.
C17_OneEventPerPosition ==
    [][ /\ \A x_position \in EventPositions, name \in EventNames :
              add_event(x_position, name, "#ff0000") =>
                  EventPut([x_position |-> x_position, name |-> name,
                            colour |-> "#ff0000"])
        /\ \A item \in EventItems : add(item) => EventPut(item.value)
        /\ \A p \in DOMAIN events' : events'[p].x_position = p
        /\ Cardinality(DOMAIN events') <= Cardinality(DOMAIN events) + 1 ]_vars

C17_Witness ==
    /\ DOMAIN events = EventPositions
    /\ events[0].name = "Sale"
    /\ events[1].name = "Launch"
    /\ events[1].colour = "None"
    /\ Len(series) = 1
    /\ ret = NoCall

\* the step leaves what add_series(name, data, style) leaves on the graph
AddedAsAddSeries(name, data, sstyle) ==
    /\ series' = Append(series, [name |-> name, data |-> data, style |-> sstyle,
                                 screen_points |-> None])
    /\ y_min' = UpdYMin(y_min, data)
    /\ y_max' = UpdYMax(y_max, data)
    /\ x_range' = Max2(x_range, Len(data))
    /\ UNCHANGED <<x_labels, style, events>>

\* the step leaves what add_event(x_position, name, colour) leaves on the graph
AddedAsAddEvent(x_position, name, colour) ==
    /\ EventPut([x_position |-> x_position, name |-> name, colour |-> colour])
    /\ UNCHANGED <<x_labels, series, y_min, y_max, x_range, style>>

\* C18: add(item) adds a Series exactly as add_series does and an Event
\* exactly as add_event does; for an item that is neither it fails with
\* ValueError and leaves series, events, y_min, y_max and x_range unchanged.
C18_AddDispatchesByType ==
    [][ /\ \A item \in SeriesItems :
              add(item) => /\ AddedAsAddSeries(item.value.name, item.value.data,
                                               item.value.style)
                           /\ ret'.kind # "raise"
        /\ \A item \in EventItems :
              add(item) => /\ AddedAsAddEvent(item.value.x_position, item.value.name,
                                              item.value.colour)
                           /\ ret'.kind # "raise"
        /\ \A item \in OtherItems :
              add(item) => /\ ret' = [kind |-> "raise", at |-> "ValueError"]
                           /\ UNCHANGED <<series, events, y_min, y_max, x_range>>
        /\ \A name \in {SeriesNames[n] : n \in 1..Len(SeriesNames)}, data \in AddData :
              add_series(name, data, LinePointsStyle) =>
                  AddedAsAddSeries(name, data, LinePointsStyle)
        /\ \A x_position \in EventPositions, name \in EventNames :
              add_event(x_position, name, "#ff0000") =>
                  AddedAsAddEvent(x_position, name, "#ff0000") ]_vars

C18_Witness ==
    /\ ret = [kind |-> "raise", at |-> "ValueError"]
    /\ Len(series) = 2
    /\ series[2].name = "Item"
    /\ series[2].data = <<None, Some(15)>>
    /\ y_min = Some(10)
    /\ y_max = Some(15)
    /\ 1 \in DOMAIN events
    /\ events[1].colour = "None"

\* the latest call was render with this size, on the graph as it is now
JustRendered(width, height) ==
    /\ Rendered
    /\ rv.lay = RenderLayout(Self, width, height)

\* C19: render(width, height) is a pure, repeatable, side-effect-free
\* function of the graph state: a call changes nothing on the graph, its
\* series or its events, and two successive calls with the same arguments
\* return the same document.
C19_RenderIsPure ==
    [][ \A size \in RenderSizes :
            render(size[1], size[2]) =>
                /\ UNCHANGED <<x_labels, series, y_min, y_max, x_range, style, events>>
                /\ JustRendered(size[1], size[2]) => ret' = ret ]_vars

\* what render(width, height) of thread t returns when no other render runs
RenderAlone(t) ==
    Render(Deref(threads.graph[t], [ref \in 1..Len(threads.heap) |->
                                       [threads.heap[ref] EXCEPT !.screen_points = None]]),
           threads.size[t][1], threads.size[t][2]).ret

\* C20: concurrent renders that each target their own graph share no mutable
\* state: for two graphs populated by any sequence of add_series / add /
\* add_event calls, under every interleaving of their two renders each
\* render draws every series from the screen points that same render
\* computed with its own width and height, so it returns what it returns
\* when it runs alone.
C20_ConcurrentRendersIndependent ==
    \A t \in Threads : threads.pc[t] = "done" => threads.out[t] = RenderAlone(t)

\* data[lo] + ... + data[hi] for present values
RECURSIVE SumOf(_, _, _)
SumOf(data, lo, hi) == IF hi < lo THEN 0 ELSE SumOf(data, lo, hi - 1) + Val(data[hi])

AllNumeric(data) == \A j \in 1..Len(data) : ~IsNone(data[j])

\* C21: get_rolling_average(W) on a series of N numeric values with
\* 1 <= W <= N returns floor(W/2) leading absent entries followed by exactly
\* N - W + 1 values, the k-th being the mean of data[k .. k+W-1]; for W = 1
\* the result equals the data with no leading absent entry, and the series'
\* own data is not modified.
C21_RollingAverageWindows ==
    [][ \A W \in AvgWidths :
            ( /\ call_get_rolling_average(1, W)
              /\ 1 <= W
              /\ W <= Len(series[1].data)
              /\ AllNumeric(series[1].data) ) =>
                LET data == series[1].data
                    N == Len(series[1].data)
                    lead == W \div 2
                IN  /\ series' = series
                    /\ ret'.kind = "value"
                    /\ Len(ret'.value) = lead + N - W + 1
                    /\ \A k \in 1..lead : IsNone(ret'.value[k])
                    /\ \A k \in 1..(N - W + 1) :
                           /\ ~IsNone(ret'.value[lead + k])
                           /\ RMul(RInt(W), Val(ret'.value[lead + k]))
                                = RInt(SumOf(data, k, k + W - 1))
                    /\ W = 1 =>
                           /\ Len(ret'.value) = N
                           /\ \A k \in 1..N : ret'.value[k] = Some(RInt(Val(data[k]))) ]_vars

C21_Witness ==
    /\ rv.stage = "rolling"
    /\ rv.average_width = 3
    /\ series[1].data = <<Some(10), Some(25), Some(10), Some(25)>>
    /\ ret.kind = "value"
    /\ ret.value = <<None, Some(RInt(15)), Some(RInt(20))>>

\* get_rolling_average(W) returned, for 1 <= W <= N
RollingReturned ==
    /\ rv.stage = "rolling"
    /\ ret.kind = "value"
    /\ 1 <= rv.average_width
    /\ rv.average_width <= Len(series[rv.series].data)

\* C22 (as stated): for data length N and window W with 1 <= W <= N, the
\* length of get_rolling_average(W) equals N exactly when W is even.
C22_LengthIsNIffEvenWidth ==
    RollingReturned =>
        (Len(ret.value) = Len(series[rv.series].data) <=> rv.average_width % 2 = 0)

\* C22 (amended): for data length N and window W with 1 <= W <= N, the length
\* of get_rolling_average(W) is floor(W/2) + N - W + 1 = N + 1 - ceil(W/2): it
\* equals N exactly when W is 1 or 2 and is shorter than N for every W >= 3.
C22_LengthIsNIffWidthOneOrTwo ==
    RollingReturned =>
        LET N == Len(series[rv.series].data)
            W == rv.average_width
        IN  /\ Len(ret.value) = N + 1 - CeilDiv(W, 2)
            /\ Len(ret.value) = N <=> W \in {1, 2}
            /\ W >= 3 => Len(ret.value) < N

C22_Witness ==
    /\ RollingReturned
    /\ rv.average_width = MaxLen + 1
    /\ Len(series[1].data) = MaxLen + 1
    /\ Len(ret.value) < MaxLen + 1

\* the ranges the range d is compared with: the one just below it, which
\* gives the whole order by transitivity, and three further ones
SmallerRanges(d) == {d1 \in {d - 1, d \div 2, d \div target_divisions, 0} : 0 <= d1 /\ d1 <= d}

\* C23: the automatically selected major interval is monotonically
\* non-decreasing in the data range: for all integer ranges d1 <= d2
\* (d = y_max - y_min), get_default_y_interval for d1 is <=
\* get_default_y_interval for d2.
C23_IntervalMonotoneInRange ==
    (ret.kind = "value" /\ rv.stage = "none") =>
        \A d1 \in SmallerRanges(Val(y_max) - Val(y_min)) :
            get_default_y_interval(Val(y_min), Val(y_min) + d1) <= ret.value

C23_Witness ==
    /\ ret.kind = "value"
    /\ rv.stage = "none"
    /\ Val(y_max) - Val(y_min) = 510
    /\ ret.value = 100
    /\ get_default_y_interval(Val(y_min), Val(y_min) + 509) = 50

\* ---------------------------------------------------------------------
\* Graphs of one series of two points under every pair of a major and a
\* minor y interval
\* ---------------------------------------------------------------------
MinorMajors == {0, 4, 10}

MinorIntervals == 0..5

MinorStyles ==
    { [DefaultStyle EXCEPT !.y_interval = i, !.y_minor_interval = m,
                           !.show_minor_y_grid_lines = show] :
        i \in MinorMajors, m \in MinorIntervals, show \in BOOLEAN }

InitMinor ==
    \E a \in -MaxAbsY..MaxAbsY, b \in -MaxAbsY..MaxAbsY, st \in MinorStyles :
        /\ a <= b
        /\ GraphWith(<<"Jan", "Feb">>, st,
                     <<NewSeries("Sales", <<Some(a), Some(b)>>, DefaultSeriesStyle)>>)

MinorRender == ret.kind = "none" /\ render(RenderWidth, RenderHeight)

NextMinor == MinorRender

SpecMinor == InitMinor /\ [][NextMinor]_vars

\* the document of the same graph with no minor interval configured
WithoutMinorInterval ==
    Render([Self EXCEPT !.style.y_minor_interval = 0], RenderWidth, RenderHeight).ret

\* C24: a configured minor y-interval that does not evenly divide the major
\* interval is a non-fatal configuration error: render reports it, draws no
\* minor gridline at all, draws all major gridlines and the rest of the
\* graph unchanged, and still returns a document.
C24_InvalidMinorIntervalNonFatal ==
    (rv.stage = "scaled" /\ MinorIntervalInvalid(style, rv.ys.y_math_interval)) =>
        /\ ret.kind = "svg"
        /\ \E k \in DOMAIN rv.log : rv.log[k] = "error: Invalid minor interval"
        /\ CallsFrom(ret.calls, "y_minor") = <<>>
        /\ Len(CallsFrom(ret.calls, "y_major")) = rv.ys.y_steps + 1
        /\ ret = WithoutMinorInterval

C24_Witness ==
    /\ rv.stage = "scaled"
    /\ style.y_interval = 10
    /\ style.y_minor_interval = 4
    /\ style.show_minor_y_grid_lines
    /\ rv.ys.y_math_interval = 10
    /\ rv.ys.y_steps >= 2
    /\ ret.kind = "svg"
    /\ CallsFrom(ret.calls, "y_minor") = <<>>

\* ---------------------------------------------------------------------
\* Graphs of up to MaxKeySeries series with a key of up to three rows, an
\* event and every part of a series drawn
\* ---------------------------------------------------------------------
MaxKeySeries == 5

KeyMaxRows == 1..3

DrawBaseStyle == [DefaultStyle EXCEPT !.y_interval = 10, !.y_minor_interval = 5]

DrawStyles ==
    { [DrawBaseStyle EXCEPT !.key_max_rows = r, !.key_order_in_columns = o] :
        r \in KeyMaxRows, o \in BOOLEAN }
    \cup { [DrawBaseStyle EXCEPT !.show_key = FALSE, !.x_scale_border = b] : b \in BOOLEAN }

\* SvgLineGraphSeriesStyle(...) with the shade, the points and the key shape set
DrawSeriesStyles ==
    { [DefaultSeriesStyle EXCEPT !.shade_under_line = TRUE, !.shade_colour = "#eee",
                                 !.show_points = TRUE],
      [DefaultSeriesStyle EXCEPT !.show_points = TRUE, !.key_shape = "circle"],
      [DefaultSeriesStyle EXCEPT !.key_shape = "triangle"] }

DrawLabelLens == {1, MaxLen}

\* the data of a series on n labels
DrawData(n) == [k \in 1..n |-> Some(10 * k)]

InitDraw == \E n \in DrawLabelLens, st \in DrawStyles : Construct(LabelsOf(n), st)

\* render has not been called yet
DrawPopulating == ret.kind \notin {"svg", "raise"}

DrawAddSeries ==
    /\ DrawPopulating
    /\ Len(series) < MaxKeySeries
    /\ \E ss \in DrawSeriesStyles : add_series("Sales", DrawData(Len(x_labels)), ss)

DrawAddEvent ==
    /\ DrawPopulating
    /\ events = NoEvents
    /\ add_event(0, "Launch", "#ff0000")

DrawRender == DrawPopulating /\ render(RenderWidth, RenderHeight)

NextDraw == DrawAddSeries \/ DrawAddEvent \/ DrawRender

SpecDraw == InitDraw /\ [][NextDraw]_vars

\* a series of the graph has a key shape that is neither 'square' nor 'circle'
HasUnknownKeyShape == \E i \in 1..Len(series) : series[i].style.key_shape \notin KeyShapes

\* C25: a series whose key marker shape is neither 'square' nor 'circle'
\* makes render (with show_key enabled and data present) fail with an error
\* for that call: no document is returned and the graph's series, events,
\* y_min, y_max and x_range are left as they were before the call.
C25_UnknownKeyShapeFailsRender ==
    [][ (render(RenderWidth, RenderHeight) /\ style.show_key /\ GraphHasData(Self)
            /\ HasUnknownKeyShape) =>
            /\ ret'.kind = "raise"
            /\ UNCHANGED <<series, events, y_min, y_max, x_range>> ]_vars

C25_Witness ==
    /\ ret.kind = "raise"
    /\ ret.at = "key_shape"
    /\ style.show_key
    /\ HasUnknownKeyShape
    /\ Len(series) >= 2
    /\ \E i \in 1..Len(series) : series[i].style.key_shape \in KeyShapes
    /\ \A i \in 1..Len(series) : series[i].screen_points = None
    /\ DOMAIN events # {}

\* the draw calls of the events
EventSources == {"event_line", "event_triangle", "event_label"}

\* the places in the document of the draw calls of the event at position p
EventCallsAt(p) ==
    {k \in DOMAIN ret.calls : ret.calls[k].src \in EventSources /\ ret.calls[k].idx = p}

\* C26: events are rendered in ascending x_position order regardless of the
\* order in which they were added: for any two events at positions p < q,
\* every draw call of the event at p is emitted before every draw call of
\* the event at q.
C26_EventsInAscendingPosition ==
    (ret.kind = "svg" /\ rv.stage = "scaled") =>
        /\ \A p \in DOMAIN events : EventCallsAt(p) # {}
        /\ \A p \in DOMAIN events, q \in DOMAIN events :
               p < q => \A i \in EventCallsAt(p), j \in EventCallsAt(q) : i < j

C26_Witness ==
    /\ ret.kind = "svg"
    /\ rv.stage = "scaled"
    /\ DOMAIN events = EventPositions
    /\ events[0].name = "Launch"
    /\ events[1].name = "Sale"
    /\ Cardinality(EventCallsAt(0)) = 3
    /\ Cardinality(EventCallsAt(1)) = 3

\* the major gridlines of the latest document
MajorGridlines == CallsFrom(ret.calls, "y_major")

\* the math y of the x-axis crossing: 0 if the y range straddles zero, else
\* the bottom of the range
AxisCrossing ==
    IF rv.ys.y_math_min < 0 /\ rv.ys.y_math_max > 0 THEN 0 ELSE rv.ys.y_math_min

\* C27: among the horizontal major gridlines, exactly one is drawn in the
\* axis colour and all others in the grid colour: the step at math-y = 0 if
\* the y range straddles zero, otherwise the step at the bottom of the range
\* (math-y = y_math_min), for every major interval and every data range.
C27_OneGridlineInAxisColour ==
    (ret.kind = "svg" /\ rv.stage = "scaled") =>
        \A k \in DOMAIN MajorGridlines :
            MajorGridlines[k].stroke =
                IF rv.ys.y_math_min + MajorGridlines[k].idx * rv.ys.y_math_interval = AxisCrossing
                THEN style.axis_line_colour
                ELSE style.grid_line_colour

\* the place of a draw call in the order of render: the statement that
\* emits it, counted by the parts of the graph
DrawStage(src) ==
    CASE src \in {"x_grid", "x_mid", "y_major", "y_minor"} -> 1
      [] src = "y_axis" -> 2
      [] src = "y_scale" -> 3
      [] src \in {"x_label", "x_border"} -> 4
      [] src \in {"key_title", "key_marker", "key_label"} -> 5
      [] src \in EventSources -> 6
      [] src = "series_shade" -> 7
      [] src = "series_line" -> 8
      [] src = "series_point" -> 9

\* the series whose draw calls from src are in the latest document
SeriesDrawn(src) ==
    {ret.calls[k].idx : k \in {k \in DOMAIN ret.calls : ret.calls[k].src = src}}

\* C28: the draw calls of a non-empty render are emitted in a fixed order:
\* all x and y gridlines, then the y-axis line, then y scale labels, x
\* labels, the key, the events, and last the series geometry in three full
\* passes over all series, so that for any two series every under-line shade
\* polygon precedes every line segment and every line segment precedes every
\* point marker.
C28_FixedDrawOrder ==
    (ret.kind = "svg" /\ rv.stage = "scaled") =>
        \A i \in DOMAIN ret.calls, j \in DOMAIN ret.calls :
            i < j => DrawStage(ret.calls[i].src) <= DrawStage(ret.calls[j].src)

C28_Witness ==
    /\ ret.kind = "svg"
    /\ rv.stage = "scaled"
    /\ Len(x_labels) = MaxLen
    /\ style.show_key
    /\ DOMAIN events # {}
    /\ {DrawStage(ret.calls[k].src) : k \in DOMAIN ret.calls} = 1..9
    /\ Cardinality(SeriesDrawn("series_shade")) >= 2
    /\ Cardinality(SeriesDrawn("series_line")) >= 3
    /\ Cardinality(SeriesDrawn("series_point")) >= 3
    /\ \E a \in SeriesDrawn("series_shade"), b \in SeriesDrawn("series_point") : a > b

\* the number of key rows and of items per row of the latest render
NumKeyRows == Min2(CeilDiv(Len(series), 2), style.key_max_rows)

ItemsPerRow == CeilDiv(Len(series), NumKeyRows)

\* the top left corner of the key marker of a draw call
MarkerCorner(call) ==
    IF call.op = "rect" THEN <<call.x, call.y>>
    ELSE <<RSub(call.cx, call.r), RSub(call.cy, call.r)>>

\* the top left corner of the marker in the cell (row, row_pos) of the key
CellCorner(row, row_pos) ==
    LET key_x_offset == style.key_title_width + style.left_margin
        key_y_offset == ret.height - style.key_row_height * NumKeyRows - style.bottom_margin
        key_width == ret.width - style.right_margin - key_x_offset
    IN  <<RAdd(RInt(key_x_offset), RMul(RInt(row_pos), Rat(key_width, ItemsPerRow))),
          RInt(key_y_offset + row * style.key_row_height + 10)>>

\* the key markers of the latest document, one per series
KeyMarkers == CallsFrom(ret.calls, "key_marker")

\* C29: with the key enabled, num_key_rows = min(ceil(series_count / 2),
\* key_max_rows) and items-per-row = ceil(series_count / num_key_rows); in
\* both row-major and column-major ordering every series is assigned a
\* (row, position-in-row) cell with 0 <= row < num_key_rows and
\* 0 <= position < items-per-row, and no two series share a cell.
C29_KeyCellsDistinctAndInRange ==
    (ret.kind = "svg" /\ rv.stage = "scaled" /\ style.show_key) =>
        /\ rv.lay.key_num_rows = NumKeyRows
        /\ rv.lay.key_height = style.key_row_height * NumKeyRows
        /\ Len(KeyMarkers) = Len(series)
        /\ \A k \in DOMAIN KeyMarkers :
               \E row \in 0..(NumKeyRows - 1), row_pos \in 0..(ItemsPerRow - 1) :
                   MarkerCorner(KeyMarkers[k]) = CellCorner(row, row_pos)
        /\ \A k \in DOMAIN KeyMarkers, l \in DOMAIN KeyMarkers :
               k # l => MarkerCorner(KeyMarkers[k]) # MarkerCorner(KeyMarkers[l])

C29_Witness ==
    /\ ret.kind = "svg"
    /\ rv.stage = "scaled"
    /\ style.show_key
    /\ style.key_order_in_columns
    /\ style.key_max_rows = 3
    /\ Len(series) = MaxKeySeries
    /\ rv.lay.key_num_rows = 3
    /\ Len(KeyMarkers) = MaxKeySeries
    /\ MarkerCorner(KeyMarkers[MaxKeySeries]) = CellCorner(1, 1)

\* the screen points render stored for the present values of the series
StoredScreenY ==
    UNION { {Val(series[i].screen_points)[k][2] : k \in 1..Len(PresentIndices(i))} :
                i \in 1..Len(series) }

\* the present values of the series, each with the screen y stored for it
ValuesOnScreen ==
    UNION { {<<Val(series[i].data[PresentIndices(i)[k]]), Val(series[i].screen_points)[k][2]>> :
                k \in 1..Len(PresentIndices(i))} : i \in 1..Len(series) }

====
